---- MODULE Spec2Model ----
(***************************************************************************)
(* Verification model of the compass-ocr document pipeline:                *)
(*   - POST /process/documents (request validation, 202 acknowledgement,   *)
(*     setImmediate hand-off),                                             *)
(*   - process_documents_async (grouping, the passport / flight / hotel    *)
(*     loops with their try/catch blocks),                                 *)
(*   - publish_progress / publish_to_redis, the three extractors, the      *)
(*     identity matcher and the result webhook.                            *)
(* Strings that the code inspects character by character (names) are       *)
(* sequences of one-character strings; the other strings are TLA+ strings. *)
(* The ISO timestamp of a progress message is left out.                    *)
(***************************************************************************)
EXTENDS Integers, Sequences, FiniteSets, TLC

(***************************************************************************)
(* Bounds of the model.                                                    *)
(***************************************************************************)
MaxDocs == 2
MaxFaults == 1
MaxNameLen == 3
MaxTravellers == 3
MaxLines == 2

(***************************************************************************)
(* JavaScript values.                                                      *)
(***************************************************************************)
\* `undefined` in a field that otherwise holds a name (a character sequence)
Undefined == <<"undefined">>
\* `undefined` / null in a field that otherwise holds a string
UndefinedStr == "undefined"
Null == "null"
\* an absent `data` member of an OCR result
NoData == [absent |-> TRUE]
\* an absent DocumentPayload (passport_pair.front / .back not set)
NoDoc ==
  [traveller_id |-> UndefinedStr, traveller_name |-> Undefined,
   document_id |-> UndefinedStr, file_url |-> UndefinedStr,
   document_type |-> UndefinedStr]

Truthy(s) == s # Undefined /\ s # <<>>

(***************************************************************************)
(* Input domains.                                                          *)
(***************************************************************************)
TravellerIds == {"t1", "t2"}
\* "ab", "ab cd", and a payload whose traveller_name is missing
TravellerNames == {<<"a", "b">>, <<"a", "b", " ", "c", "d">>, Undefined}
DocumentTypes == {"passport_front", "passport_back", "flight", "hotel", "visa"}
DocumentIds == <<"d1", "d2", "d3", "d4", "d5", "d6">>
FileUrls == <<"u1", "u2", "u3", "u4", "u5", "u6">>

\* the documents arrays of at most MaxDocs DocumentPayloads, document ids
\* unique
RECURSIVE Batches(_)
Batches(n) ==
  IF n = 0 THEN {<<>>}
  ELSE LET shorter == Batches(n - 1)
       IN shorter \cup
          { Append(b, [traveller_id |-> tid, traveller_name |-> tname,
                       document_id |-> DocumentIds[n], file_url |-> FileUrls[n],
                       document_type |-> dtype]) :
              b \in {s \in shorter : Len(s) = n - 1},
              tid \in TravellerIds, tname \in TravellerNames,
              dtype \in DocumentTypes }

\* a batch of two travellers with all kinds of documents, the passport
\* sides apart and the hotel booking ahead of the flight ticket; a batch
\* with an empty traveller_name; a batch with repeated passport sides
SampleBatches ==
  LET doc(n, tid, tname, dtype) ==
        [traveller_id |-> tid, traveller_name |-> tname,
         document_id |-> DocumentIds[n], file_url |-> FileUrls[n],
         document_type |-> dtype]
  IN {<<doc(1, "t1", <<"a", "b">>, "hotel"),
        doc(2, "t2", <<"a", "b", " ", "c", "d">>, "passport_back"),
        doc(3, "t2", <<"a", "b", " ", "c", "d">>, "flight"),
        doc(4, "t1", <<"a", "b">>, "passport_front"),
        doc(5, "t2", <<"a", "b", " ", "c", "d">>, "passport_front"),
        doc(6, "t1", <<"a", "b">>, "passport_back")>>,
      \* a traveller whose name is the empty string, and another one's ticket
      <<doc(1, "t1", <<>>, "visa"), doc(2, "t2", <<"a", "b">>, "flight")>>,
      \* a traveller with two passport fronts and two passport backs
      <<doc(1, "t1", <<"a", "b">>, "passport_front"),
        doc(2, "t1", <<"a", "b">>, "passport_back"),
        doc(3, "t1", <<"a", "b">>, "passport_front"),
        doc(4, "t1", <<"a", "b">>, "passport_back")>>}

\* req.body: order_id may be missing or empty, documents may be missing,
\* a non-array value, or an array
RequestBodies ==
  [order_id : {UndefinedStr, "", "o1"},
   documents : [kind : {"array"}, items : Batches(MaxDocs) \cup SampleBatches]
               \cup {[kind |-> "missing", items |-> <<>>],
                     [kind |-> "object", items |-> <<>>]}]

(***************************************************************************)
(* Characters.                                                             *)
(***************************************************************************)
UpperCaseLetters ==
  <<"A", "B", "C", "D", "E", "F", "G", "H", "I", "J", "K", "L", "M",
    "N", "O", "P", "Q", "R", "S", "T", "U", "V", "W", "X", "Y", "Z">>

LowerCaseLetters ==
  <<"a", "b", "c", "d", "e", "f", "g", "h", "i", "j", "k", "l", "m",
    "n", "o", "p", "q", "r", "s", "t", "u", "v", "w", "x", "y", "z">>

Range(seq) == {seq[k] : k \in 1..Len(seq)}

\* [A-Z], [a-z], \d
Upper == Range(UpperCaseLetters)
Lower == Range(LowerCaseLetters)
Digits == {"0", "1", "2", "3", "4", "5", "6", "7", "8", "9"}
Letters == Upper \cup Lower

\* \s
Spaces == {" ", "\t", "\n", "\r", "\f"}

IndexOf(seq, x) == CHOOSE k \in 1..Len(seq) : seq[k] = x

(***************************************************************************)
(* mapping.service.ts: fuzzy_match_name and map_ticket_to_passenger.       *)
(* A score is the fraction <<numerator, denominator>>.                     *)
(***************************************************************************)
\* variant: the names are compared as they are written
ToLowerCase_identity(c) ==
  c

ToLowerCase(c) ==
  IF c \in Upper THEN LowerCaseLetters[IndexOf(UpperCaseLetters, c)] ELSE c

\* \s
IsSpace(c) == c \in Spaces

RECURSIVE TrimStart(_)
TrimStart(s) ==
  IF s # <<>> /\ IsSpace(Head(s)) THEN TrimStart(Tail(s)) ELSE s

RECURSIVE TrimEnd(_)
TrimEnd(s) ==
  IF s # <<>> /\ IsSpace(s[Len(s)]) THEN TrimEnd(SubSeq(s, 1, Len(s) - 1)) ELSE s

\* replace(/\s+/g, ' ')
RECURSIVE CollapseSpaces(_)
CollapseSpaces(s) ==
  IF s = <<>> THEN <<>>
  ELSE IF IsSpace(Head(s))
       THEN <<" ">> \o CollapseSpaces(TrimStart(s))
       ELSE <<Head(s)>> \o CollapseSpaces(Tail(s))

\* toLowerCase().trim().replace(/\s+/g, ' '); each call works on the value
\* the call before it returned
normalize(name) ==
  CHOOSE normalized \in
    { CollapseSpaces(trimmed) :
        trimmed \in
          { TrimEnd(trimmed_start) :
              trimmed_start \in
                { TrimStart(lower) :
                    lower \in {[k \in 1..Len(name) |-> ToLowerCase(name[k])]} } } } :
      TRUE

\* s.includes(t)
Includes(s, t) ==
  \E k \in 0..(Len(s) - Len(t)) : SubSeq(s, k + 1, k + Len(t)) = t

\* s.split(' ')
RECURSIVE Split(_)
Split(s) ==
  IF \A k \in 1..Len(s) : s[k] # " " THEN <<s>>
  ELSE LET k == CHOOSE j \in 1..Len(s) :
                  s[j] = " " /\ \A m \in 1..(j - 1) : s[m] # " "
       IN <<SubSeq(s, 1, k - 1)>> \o Split(SubSeq(s, k + 1, Len(s)))

\* variant: Math.min
Max_min(a, b) == IF a <= b THEN a ELSE b

Max(a, b) == IF a >= b THEN a ELSE b

ScoreGE(x, y) == x[1] * y[2] >= y[1] * x[2]

\* variant: the shared words are counted once each
fuzzy_match_name_distinct_shared(name1, name2) ==
  CHOOSE score \in
    { LET words1 == Split(n1)
          words2 == Split(n2)
          common_words ==
            Cardinality({words1[k] : k \in 1..Len(words1)}
                          \cap {words2[m] : m \in 1..Len(words2)})
          total_words == Max(Len(words1), Len(words2))
      IN IF n1 = n2 THEN <<1, 1>>
         ELSE IF Includes(n1, n2) \/ Includes(n2, n1) THEN <<4, 5>>
         ELSE IF total_words = 0 THEN <<0, 1>>
         ELSE <<common_words, total_words>> :
        n1 \in {normalize(name1)}, n2 \in {normalize(name2)} } : TRUE

\* n1 and n2 are bound once, as `const n1` and `const n2` are
fuzzy_match_name(name1, name2) ==
  CHOOSE score \in
    { LET words1 == Split(n1)
          words2 == Split(n2)
          common_words ==
            Cardinality({k \in 1..Len(words1) :
                           \E m \in 1..Len(words2) : words2[m] = words1[k]})
          total_words == Max(Len(words1), Len(words2))
      IN IF n1 = n2 THEN <<1, 1>>
         ELSE IF Includes(n1, n2) \/ Includes(n2, n1) THEN <<4, 5>>
         ELSE IF total_words = 0 THEN <<0, 1>>
         ELSE <<common_words, total_words>> :
        n1 \in {normalize(name1)}, n2 \in {normalize(name2)} } : TRUE

threshold == <<3, 5>>

NoMatch == [traveller_id |-> Null, score |-> <<0, 1>>]

\* variant: score >= best_match.score, the last of several equal scores wins
RECURSIVE BestMatch_last_on_ties(_, _, _, _)
BestMatch_last_on_ties(extracted_name, travellers, k, best_match) ==
  IF k > Len(travellers) THEN best_match
  ELSE CHOOSE match \in
         { BestMatch_last_on_ties(extracted_name, travellers, k + 1,
                     IF /\ ScoreGE(score, threshold)
                        /\ (best = NoMatch \/ ScoreGE(score, best.score))
                     THEN [traveller_id |-> travellers[k].traveller_id, score |-> score]
                     ELSE best) :
             score \in {fuzzy_match_name(extracted_name, travellers[k].traveller_name)},
             best \in {best_match} } : TRUE

\* the for loop of map_ticket_to_passenger from traveller k on; score and
\* best are bound once per iteration, as `const score` and `best_match` are;
\* score > best_match.score is ~ScoreGE(best.score, score)
RECURSIVE BestMatch(_, _, _, _)
BestMatch(extracted_name, travellers, k, best_match) ==
  IF k > Len(travellers) THEN best_match
  ELSE CHOOSE match \in
         { BestMatch(extracted_name, travellers, k + 1,
                     IF /\ ScoreGE(score, threshold)
                        /\ (best = NoMatch \/ ~ScoreGE(best.score, score))
                     THEN [traveller_id |-> travellers[k].traveller_id, score |-> score]
                     ELSE best) :
             score \in {fuzzy_match_name(extracted_name, travellers[k].traveller_name)},
             best \in {best_match} } : TRUE

\* [thrown, value]: the returned traveller_id or Null; thrown when the loop
\* calls name.toLowerCase() on a traveller_name that is not a string
\* variant: the loop takes the travellers out of the list it is given,
\* while (travellers.length) { const traveller = travellers.shift() ... }
map_ticket_to_passenger_shifting(extracted_name, travellers) ==
  IF ~Truthy(extracted_name) \/ Len(travellers) = 0
  THEN [thrown |-> FALSE, value |-> Null, travellers |-> travellers]
  ELSE IF \E k \in 1..Len(travellers) : travellers[k].traveller_name = Undefined
  THEN [thrown |-> TRUE, value |-> Null, travellers |-> <<>>]
  ELSE [thrown |-> FALSE,
        value |-> BestMatch(extracted_name, travellers, 1, NoMatch).traveller_id,
        travellers |-> <<>>]

\* variant: a traveller replaces the best match when its score is as high
map_ticket_to_passenger_latest_best(extracted_name, travellers) ==
  IF ~Truthy(extracted_name) \/ Len(travellers) = 0
  THEN [thrown |-> FALSE, value |-> Null, travellers |-> travellers]
  ELSE IF \E k \in 1..Len(travellers) : travellers[k].traveller_name = Undefined
  THEN [thrown |-> TRUE, value |-> Null, travellers |-> travellers]
  ELSE [thrown |-> FALSE,
        value |-> BestMatch_last_on_ties(extracted_name, travellers, 1,
                                         NoMatch).traveller_id,
        travellers |-> travellers]

\* travellers is the list as the call leaves it: the function only reads it
map_ticket_to_passenger(extracted_name, travellers) ==
  IF ~Truthy(extracted_name) \/ Len(travellers) = 0
  THEN [thrown |-> FALSE, value |-> Null, travellers |-> travellers]
  ELSE IF \E k \in 1..Len(travellers) : travellers[k].traveller_name = Undefined
  THEN [thrown |-> TRUE, value |-> Null, travellers |-> travellers]
  ELSE [thrown |-> FALSE,
        value |-> BestMatch(extracted_name, travellers, 1, NoMatch).traveller_id,
        travellers |-> travellers]

(***************************************************************************)
(* passport.service.ts: process_passport_ocr.                              *)
(* body is the parsed JSON of the verification API: [malformed |-> TRUE]  *)
(* when response.json() throws, [null |-> TRUE] when the JSON is null, so  *)
(* that result.full_name throws a TypeError inside the try block.          *)
(***************************************************************************)
\* the members of the API response that give a fixed field, in the order of
\* its || chain
Aliases ==
  [full_name |-> <<"full_name", "name", "passport_holder_name">>,
   passport_number |-> <<"passport_number", "passport_no">>,
   date_of_birth |-> <<"date_of_birth", "dob">>,
   expiry_date |-> <<"expiry_date", "expiration_date">>,
   nationality |-> <<"nationality", "country">>,
   place_of_birth |-> <<"place_of_birth">>,
   gender |-> <<"gender", "sex">>]

\* result.a || result.b || ...: the first member that is truthy, else the
\* last one; a member the response does not have is undefined
RECURSIVE OrElse(_, _)
OrElse(result, keys) ==
  LET member == IF Head(keys) \in DOMAIN result THEN result[Head(keys)] ELSE Undefined
  IN IF Len(keys) = 1 \/ Truthy(member) THEN member
     ELSE OrElse(result, Tail(keys))

\* the object literal of extracted_data: the fixed fields first, then
\* ...result, whose own members replace the fixed fields of the same name
extracted_data(result) ==
  [key \in DOMAIN Aliases \cup DOMAIN result |->
     IF key \in DOMAIN result THEN result[key]
     ELSE OrElse(result, Aliases[key])]

PassportEnvs ==
  {[front |-> "ok", back |-> "ok", api |-> "ok", body |-> [full_name |-> <<"a">>]]}

PassportFailures ==
  {[front |-> f, back |-> "ok", api |-> "ok", body |-> NoData] :
      f \in {"not_ok", "rejected"}}
  \cup {[front |-> "ok", back |-> f, api |-> "ok", body |-> NoData] :
      f \in {"not_ok", "rejected"}}
  \cup {[front |-> "ok", back |-> "ok", api |-> f, body |-> NoData] :
      f \in {"not_ok", "rejected"}}
  \cup {[front |-> "ok", back |-> "ok", api |-> "ok", body |-> b] :
      b \in {[malformed |-> TRUE], [null |-> TRUE]}}

\* variant: response.ok of the verification API is not looked at
process_passport_ocr_unchecked_api(file_front_url, file_back_url, env) ==
  LET err(msg) == [status |-> "error", data |-> NoData, error |-> msg]
  IN IF env.front = "rejected" THEN err("fetch failed")
     ELSE IF env.front = "not_ok" THEN err("Failed to download passport front")
     ELSE IF env.back = "rejected" THEN err("fetch failed")
     ELSE IF env.back = "not_ok" THEN err("Failed to download passport back")
     ELSE IF env.api = "rejected" THEN err("fetch failed")
     ELSE IF env.body = [malformed |-> TRUE] THEN err("Unexpected token")
     ELSE IF env.body = [null |-> TRUE] THEN err("Cannot read properties of null")
     ELSE [status |-> "success", data |-> extracted_data(env.body),
           error |-> UndefinedStr]

process_passport_ocr(file_front_url, file_back_url, env) ==
  LET err(msg) == [status |-> "error", data |-> NoData, error |-> msg]
  IN IF env.front = "rejected" THEN err("fetch failed")
     ELSE IF env.front = "not_ok" THEN err("Failed to download passport front")
     ELSE IF env.back = "rejected" THEN err("fetch failed")
     ELSE IF env.back = "not_ok" THEN err("Failed to download passport back")
     ELSE IF env.api = "rejected" THEN err("fetch failed")
     ELSE IF env.api = "not_ok" THEN err("Gridlines API error")
     ELSE IF env.body = [malformed |-> TRUE] THEN err("Unexpected token")
     ELSE IF env.body = [null |-> TRUE] THEN err("Cannot read properties of null")
     ELSE [status |-> "success", data |-> extracted_data(env.body),
           error |-> UndefinedStr]

(***************************************************************************)
(* Texts and regular expressions of flight.service.ts / hotel.service.ts.  *)
(* A text is a sequence of one-character strings.  A regular expression is *)
(* a tree; Ends gives the positions at which a match that starts at p can  *)
(* end, in the order in which the backtracking matcher tries them, so the  *)
(* first position from which the rest of the pattern matches is the one    *)
(* String.prototype.match reports.                                         *)
(***************************************************************************)
toUpperCase(s) ==
  [k \in 1..Len(s) |->
     IF s[k] \in Lower THEN UpperCaseLetters[IndexOf(LowerCaseLetters, s[k])]
     ELSE s[k]]

\* a quantifier without an upper limit: *, +
Unlimited == 100000

\* the nodes of a regular expression
Lit(s) == [op |-> "literal", s |-> s]
Cls(chars, min, max) == [op |-> "class", chars |-> chars, min |-> min, max |-> max]
Cat(rs) == [op |-> "sequence", rs |-> rs]
Alt(rs) == [op |-> "alternatives", rs |-> rs]
Rep(r, min, max) == [op |-> "repeat", r |-> r, min |-> min, max |-> max]
WordBoundary == [op |-> "\\b"]
StartOfText == [op |-> "^"]
NotFollowedBy(r) == [op |-> "(?!)", r |-> r]

\* the flag i: a letter of a literal or of a class matches in both cases
RECURSIVE IgnoreCase(_)
IgnoreCase(r) ==
  CASE r.op = "literal" ->
         [op |-> "literal i", s |-> [k \in 1..Len(r.s) |-> ToLowerCase(r.s[k])]]
    [] r.op \in {"class", "lazy"} ->
         [r EXCEPT !.chars =
            r.chars
              \cup {LowerCaseLetters[IndexOf(UpperCaseLetters, c)] :
                      c \in r.chars \cap Upper}
              \cup {UpperCaseLetters[IndexOf(LowerCaseLetters, c)] :
                      c \in r.chars \cap Lower}]
    [] r.op \in {"sequence", "alternatives"} ->
         [r EXCEPT !.rs = [k \in 1..Len(r.rs) |-> IgnoreCase(r.rs[k])]]
    [] r.op \in {"repeat", "(?!)"} ->
         [r EXCEPT !.r = IgnoreCase(r.r)]
    [] OTHER -> r

\* the number of characters of chars at p, p + 1, ..., at most max
RECURSIVE RunLength(_, _, _, _)
RunLength(chars, text, p, max) ==
  IF max = 0 \/ p > Len(text) \/ text[p] \notin chars THEN 0
  ELSE 1 + RunLength(chars, text, p + 1, max - 1)

\* the character at p is one of \w
IsWordChar(text, p) ==
  p >= 1 /\ p <= Len(text) /\ text[p] \in Letters \cup Digits \cup {"_"}

\* the sequences seqs[k], seqs[k + 1], ... one after the other
RECURSIVE FlattenFrom(_, _)
FlattenFrom(seqs, k) ==
  IF k > Len(seqs) THEN <<>> ELSE seqs[k] \o FlattenFrom(seqs, k + 1)

Flatten(seqs) ==
  CHOOSE flat \in {FlattenFrom(s, 1) : s \in {seqs \o <<>>}} : TRUE

\* a position is tried once: a second try from it fails as the first did
Once(ps) ==
  CHOOSE once \in
    { [j \in 1..Len(first) |-> first[j][2]] \o <<>> :
        first \in
          { SelectSeq([j \in 1..Len(qs) |-> <<j, qs[j]>>],
                      LAMBDA e : \A k \in 1..(e[1] - 1) : qs[k] # e[2]) :
              qs \in {ps} } } : TRUE

RECURSIVE Ends(_, _, _)
RECURSIVE EndsOfSequence(_, _, _, _)
RECURSIVE EndsOfRepeat(_, _, _, _)

Ends(r, text, p) ==
  CASE r.op = "literal" ->
         IF /\ p + Len(r.s) - 1 <= Len(text)
            /\ \A k \in 1..Len(r.s) : text[p + k - 1] = r.s[k]
         THEN <<p + Len(r.s)>> ELSE <<>>
    [] r.op = "literal i" ->
         IF /\ p + Len(r.s) - 1 <= Len(text)
            /\ \A k \in 1..Len(r.s) : ToLowerCase(text[p + k - 1]) = r.s[k]
         THEN <<p + Len(r.s)>> ELSE <<>>
    [] r.op = "class" ->
         \* greedy: the longest run first
         CHOOSE ends \in
           { [k \in 1..(n - r.min + 1) |-> p + n - k + 1] \o <<>> :
               n \in {RunLength(r.chars, text, p, r.max)} } : TRUE
    [] r.op = "lazy" ->
         \* lazy: the shortest run first
         CHOOSE ends \in
           { [k \in 1..(n - r.min + 1) |-> p + r.min + k - 1] \o <<>> :
               n \in {RunLength(r.chars, text, p, r.max)} } : TRUE
    [] r.op = "sequence" -> EndsOfSequence(r.rs, 1, text, <<p>>)
    [] r.op = "alternatives" ->
         Once(Flatten([k \in 1..Len(r.rs) |-> Ends(r.rs[k], text, p)]))
    [] r.op = "repeat" -> EndsOfRepeat(r, text, p, 0)
    [] r.op = "\\b" ->
         IF IsWordChar(text, p - 1) # IsWordChar(text, p) THEN <<p>> ELSE <<>>
    [] r.op = "^" -> IF p = 1 THEN <<p>> ELSE <<>>
    [] r.op = "(?!)" -> IF Ends(r.r, text, p) = <<>> THEN <<p>> ELSE <<>>

\* the ends of rs[k], rs[k + 1], ... started at each of the positions ps
EndsOfSequence(rs, k, text, ps) ==
  IF k > Len(rs) THEN ps
  ELSE CHOOSE ends \in
         { EndsOfSequence(rs, k + 1, text, next) :
             next \in
               {Once(Flatten([j \in 1..Len(ps) |-> Ends(rs[k], text, ps[j])]))} } :
           TRUE

\* greedy repetition: one more round of r.r first, stopping here last
EndsOfRepeat(r, text, p, rounds) ==
  Once(
    (IF rounds < r.max
     THEN CHOOSE more \in
            { Flatten([j \in 1..Len(next) |->
                         IF next[j] = p THEN <<>>
                         ELSE EndsOfRepeat(r, text, next[j], rounds + 1)]) :
                next \in {Ends(r.r, text, p)} } : TRUE
     ELSE <<>>)
    \o (IF rounds >= r.min THEN <<p>> ELSE <<>>))

\* A pattern is the sequence of its parts, a capturing group being a part of
\* its own.  A match is the sequence of the positions between the parts:
\* part k matched text[m[k]] .. text[m[k + 1] - 1]; <<>> when nothing matches.
\* the match of the parts k, k + 1, ... at p: the first end of part k from
\* which the parts after it match
RECURSIVE MatchAt(_, _, _, _)
MatchAt(pattern, k, text, p) ==
  IF k > Len(pattern) THEN <<p>>
  ELSE CHOOSE m \in
         { IF rests = <<>> THEN <<>> ELSE <<p>> \o Head(rests) :
             rests \in
               { SelectSeq([j \in 1..Len(ends) |->
                              MatchAt(pattern, k + 1, text, ends[j])],
                           LAMBDA rest : rest # <<>>) :
                   ends \in {Ends(pattern[k], text, p)} } } : TRUE

\* the matches at the positions of the text, from left to right
MatchesAt(text, pattern) ==
  SelectSeq([p \in 1..(Len(text) + 1) |-> MatchAt(pattern, 1, text, p)],
            LAMBDA m : m # <<>>)

\* text.match(pattern) without the flag g: the leftmost match
Match(text, pattern) ==
  CHOOSE m \in
    { IF ms = <<>> THEN <<>> ELSE Head(ms) : ms \in {MatchesAt(text, pattern)} } :
      TRUE

\* text.matchAll(pattern): the matches from left to right, each search
\* starting at p, where the match before it ended
RECURSIVE MatchAllFrom(_, _)
MatchAllFrom(ms, p) ==
  IF ms = <<>> THEN <<>>
  ELSE IF Head(ms)[1] < p THEN MatchAllFrom(Tail(ms), p)
  ELSE <<Head(ms)>>
       \o MatchAllFrom(Tail(ms),
                       LET m == Head(ms)
                       IN IF m[Len(m)] = m[1] THEN m[Len(m)] + 1 ELSE m[Len(m)])

MatchAll(text, pattern) == MatchAllFrom(MatchesAt(text, pattern), 1)

\* match[0] and the text of the group that is part k of the pattern
Matched(text, m) == SubSeq(text, m[1], m[Len(m)] - 1)
Group(text, m, k) == SubSeq(text, m[k], m[k + 1] - 1)

(***************************************************************************)
(* flight.service.ts: validate_flight_ticket, extract_flight_data and      *)
(* process_flight_ocr.  A field that the code leaves unset is Undefined.   *)
(***************************************************************************)
\* the characters a text is written with
Characters ==
  Letters \cup Digits \cup Spaces \cup {":", "/", "-", ".", ",", "_", "&",
      "'"}

\* text.toLowerCase()
toLowerCase(text) == [k \in 1..Len(text) |-> ToLowerCase(text[k])]

\* text.trim()
trim(text) == TrimEnd(TrimStart(text))

\* text.replace(/\s/g, '')
RECURSIVE RemoveSpaces(_)
RemoveSpaces(text) ==
  IF text = <<>> THEN <<>>
  ELSE IF IsSpace(Head(text)) THEN RemoveSpaces(Tail(text))
       ELSE <<Head(text)>> \o RemoveSpaces(Tail(text))

\* a pattern written with the flag i
IgnoringCase(pattern) == [k \in 1..Len(pattern) |-> IgnoreCase(pattern[k])]

\* \s+
SomeSpace == Cls(Spaces, 1, Unlimited)

flight_keywords ==
  <<<<"p", "n", "r">>, <<"b", "o", "o", "k", "i", "n", "g", " ", "r", "e",
      "f", "e", "r", "e", "n", "c", "e">>, <<"f", "l", "i", "g", "h", "t">>,
      <<"a", "i", "r", "l", "i", "n", "e">>, <<"d", "e", "p", "a", "r", "t",
      "u", "r", "e">>,
    <<"a", "r", "r", "i", "v", "a", "l">>, <<"p", "a", "s", "s", "e", "n",
      "g", "e", "r">>, <<"t", "i", "c", "k", "e", "t">>, <<"b", "o", "a",
      "r", "d", "i", "n", "g">>, <<"g", "a", "t", "e">>, <<"s", "e", "a",
      "t">>,
    <<"a", "i", "r", "p", "o", "r", "t">>>>

\* flight_keywords.filter(keyword => lower_text.includes(keyword))
FoundKeywords(keywords, lower_text) ==
  SelectSeq(keywords, LAMBDA keyword : Includes(lower_text, keyword))

\* variant: the keywords are looked for in the text as it was recognized
validate_flight_ticket_case_sensitive(text) ==
  Len(FoundKeywords(flight_keywords, text)) >= 3

validate_flight_ticket(text) ==
  \E lower_text \in {toLowerCase(text)} :
    Len(FoundKeywords(flight_keywords, lower_text)) >= 3

\* the capturing group is part 3 of the first pattern, part 2 of the second
pnr_patterns ==
  << IgnoringCase(
       << Alt(<<Lit(<<"p", "n", "r">>),
                Cat(<<Lit(<<"b", "o", "o", "k", "i", "n", "g">>), SomeSpace,
                            Lit(<<"r", "e", "f", "e", "r", "e", "n", "c",
                            "e">>)>>)>>),
          Cls({":"} \cup Spaces, 0, Unlimited),
          Cls(Upper \cup Digits, 6, 6) >>),
     IgnoringCase(
       << WordBoundary,
          Cls(Upper \cup Digits, 6, 6),
          WordBoundary,
          NotFollowedBy(
            Cat(<<Cls(Spaces, 0, Unlimited),
                  Alt(<<Lit(<<"h", "r", "s">>), Lit(<<"h", "o", "u", "r", "s">>),
                        Lit(<<"p", "m">>), Lit(<<"a", "m">>)>>)>>)) >>) >>

\* variant: the loop has no break, the last pattern that matches gives the PNR
RECURSIVE ExtractPnr_without_break(_, _)
ExtractPnr_without_break(text, k) ==
  IF k > Len(pnr_patterns) THEN Undefined
  ELSE CHOOSE pnr \in
         { IF later # Undefined THEN later
           ELSE IF match # <<>> /\ Len(Group(text, match, group)) = 6
           THEN toUpperCase(Group(text, match, group))
           ELSE Undefined :
             match \in {Match(text, pnr_patterns[k])},
             group \in {<<3, 2>>[k]},
             later \in {ExtractPnr_without_break(text, k + 1)} } : TRUE

\* for (const pattern of pnr_patterns): the first pattern whose match has a
\* group of 6 characters
RECURSIVE ExtractPnr(_, _)
ExtractPnr(text, k) ==
  IF k > Len(pnr_patterns) THEN Undefined
  ELSE CHOOSE pnr \in
         { IF match # <<>> /\ Len(Group(text, match, group)) = 6
           THEN toUpperCase(Group(text, match, group))
           ELSE ExtractPnr(text, k + 1) :
             match \in {Match(text, pnr_patterns[k])},
             group \in {<<3, 2>>[k]} } : TRUE

\* (?:Mr|Ms|Mrs|Miss|Dr)
Title == Alt(<<Lit(<<"M", "r">>), Lit(<<"M", "s">>), Lit(<<"M", "r", "s">>),
                     Lit(<<"M", "i", "s", "s">>), Lit(<<"D", "r">>)>>)

\* [A-Z][a-z]+
CapitalizedWord == Cat(<<Cls(Upper, 1, 1), Cls(Lower, 1, Unlimited)>>)

\* [A-Z][a-z]+(?:\s+[A-Z][a-z]+)+
CapitalizedWords ==
  Cat(<<CapitalizedWord, Rep(Cat(<<SomeSpace, CapitalizedWord>>), 1,
      Unlimited)>>)

\* the capturing group is part 3, 6 and 3 of the patterns
name_patterns ==
  << IgnoringCase(
       << Title, Cls(Spaces \cup {"."}, 1, Unlimited), CapitalizedWords >>),
     IgnoringCase(
       << Lit(<<"p", "a", "s", "s", "e", "n", "g", "e", "r">>), SomeSpace,
                Lit(<<"i", "n", "f", "o", "r", "m", "a", "t", "i", "o",
                "n">>), SomeSpace,
          Rep(Cat(<<CapitalizedWord, SomeSpace>>), 0, 1),
          CapitalizedWords >>),
     IgnoringCase(
       << Alt(<<Lit(<<"p", "a", "s", "s", "e", "n", "g", "e", "r">>),
                      Lit(<<"n", "a", "m", "e">>)>>),
          Cls({":"} \cup Spaces, 1, Unlimited),
          CapitalizedWords >>) >>

false_positives ==
  <<<<"I", "n", "f", "o", "r", "m", "a", "t", "i", "o", "n">>, <<"B", "o",
      "o", "k", "i", "n", "g", " ", "R", "e", "f", "e", "r", "e", "n", "c",
      "e">>, <<"P", "a", "y", "m", "e", "n", "t", " ", "S", "t", "a", "t",
      "u", "s">>, <<"C", "o", "m", "p", "l", "e", "t", "e">>,
    <<"A", "b", "u", " ", "D", "h", "a", "b", "i">>, <<"M", "u", "m", "b",
      "a", "i">>, <<"T", "r", "a", "v", "e", "l", " ", "T", "i", "m", "e">>>>

\* for (const pattern of name_patterns): the first pattern whose trimmed
\* group contains no false positive,
\* !false_positives.some(fp => name.includes(fp))
RECURSIVE ExtractName(_, _)
ExtractName(text, k) ==
  IF k > Len(name_patterns) THEN Undefined
  ELSE CHOOSE passenger_name \in
         { IF match # <<>> /\ Group(text, match, group) # <<>>
              /\ \A j \in 1..Len(false_positives) :
                   ~Includes(trim(Group(text, match, group)), false_positives[j])
           THEN trim(Group(text, match, group))
           ELSE ExtractName(text, k + 1) :
             match \in {Match(text, name_patterns[k])},
             group \in {<<3, 6, 3>>[k]} } : TRUE

\* the fallback pattern: its [\s\S]{0,100}? is lazy and its capturing group is
\* part 7
fallback_pattern ==
  IgnoringCase(
    << Lit(<<"p", "a", "s", "s", "e", "n", "g", "e", "r">>), SomeSpace,
       Lit(<<"i", "n", "f", "o", "r", "m", "a", "t", "i", "o", "n">>),
       [Cls(Characters, 0, 100) EXCEPT !.op = "lazy"],
       Rep(Title, 0, 1),
       Cls(Spaces \cup {"."}, 0, Unlimited),
       Cat(<<CapitalizedWord, SomeSpace, CapitalizedWord>>) >>)

\* if (!data.passenger_name): the fallback is taken as it matches
ExtractPassengerName(text) ==
  CHOOSE passenger_name \in
    { IF Truthy(name) THEN name
      ELSE IF fallback_match # <<>> /\ Group(text, fallback_match, 7) # <<>>
      THEN trim(Group(text, fallback_match, 7))
      ELSE Undefined :
        name \in {ExtractName(text, 1)},
        fallback_match \in {Match(text, fallback_pattern)} } :
      TRUE

flight_patterns ==
  << IgnoringCase(
       << Cls(Upper, 2, 3), Cls(Spaces, 0, Unlimited), Cls(Digits, 3, 4), WordBoundary >>),
     IgnoringCase(
       << WordBoundary,
          Cat(<<Cls(Upper, 2, 3), Cls(Spaces, 0, 1), Cls(Digits, 3, 4)>>),
          WordBoundary >>) >>

\* variant: match[0] is not put into upper case
RECURSIVE ExtractFlightNumber_as_written(_, _)
ExtractFlightNumber_as_written(text, k) ==
  IF k > Len(flight_patterns) THEN Undefined
  ELSE CHOOSE flight_number \in
         { IF /\ flight_num # <<>>
              /\ \E j \in 1..Len(flight_num) : flight_num[j] \notin Digits
              /\ Len(flight_num) >= 4
           THEN flight_num
           ELSE ExtractFlightNumber_as_written(text, k + 1) :
             flight_num \in
               { IF match = <<>> THEN <<>>
                 ELSE RemoveSpaces(Matched(text, match)) :
                   match \in {Match(text, flight_patterns[k])} } } : TRUE

\* for (const pattern of flight_patterns): the first pattern whose match[0],
\* without its whitespace (replace(/\s/g, '')) and in upper case, is not a number
\* (!flight_num.match(/^\d+$/)) and has 4 characters or more
RECURSIVE ExtractFlightNumber(_, _)
ExtractFlightNumber(text, k) ==
  IF k > Len(flight_patterns) THEN Undefined
  ELSE CHOOSE flight_number \in
         { IF /\ flight_num # <<>>
              /\ \E j \in 1..Len(flight_num) : flight_num[j] \notin Digits
              /\ Len(flight_num) >= 4
           THEN flight_num
           ELSE ExtractFlightNumber(text, k + 1) :
             flight_num \in
               { IF match = <<>> THEN <<>>
                 ELSE toUpperCase(RemoveSpaces(Matched(text, match))) :
                   match \in {Match(text, flight_patterns[k])} } } : TRUE

date_patterns ==
  << IgnoringCase(
       << Cls(Digits, 1, 2), SomeSpace,
          Alt(<<Lit(<<"J", "a", "n">>), Lit(<<"F", "e", "b">>),
                Lit(<<"M", "a", "r">>), Lit(<<"A", "p", "r">>),
                Lit(<<"M", "a", "y">>), Lit(<<"J", "u", "n">>),
                Lit(<<"J", "u", "l">>), Lit(<<"A", "u", "g">>),
                Lit(<<"S", "e", "p">>), Lit(<<"O", "c", "t">>),
                Lit(<<"N", "o", "v">>), Lit(<<"D", "e", "c">>)>>),
          Cls(Lower, 0, Unlimited), SomeSpace, Cls(Digits, 4, 4) >>),
     << Cls(Digits, 1, 2), Cls({"/", "-"}, 1, 1), Cls(Digits, 1, 2),
        Cls({"/", "-"}, 1, 1), Cls(Digits, 2, 4) >> >>

\* for (const pattern of patterns) for (const match of text.matchAll(pattern))
\* found.push(match[0]): all the matches of the first pattern, then all the
\* matches of the second, ...
RECURSIVE Collect(_, _, _)
Collect(text, patterns, k) ==
  IF k > Len(patterns) THEN <<>>
  ELSE (CHOOSE found \in
          { [j \in 1..Len(matches) |-> Matched(text, matches[j])] :
              matches \in {MatchAll(text, patterns[k])} } : TRUE)
       \o Collect(text, patterns, k + 1)

\* found[k - 1] of a JavaScript array
At(found, k) == IF k <= Len(found) THEN found[k] ELSE Undefined

\* [A-Za-z\s]+
LettersAndSpaces == Cls(Letters \cup Spaces, 1, Unlimited)

\* (?:Airport|International Airport)
AirportWord == Alt(<<Lit(<<"A", "i", "r", "p", "o", "r", "t">>), Lit(<<"I",
                           "n", "t", "e", "r", "n", "a", "t", "i", "o", "n",
                           "a", "l", " ", "A", "i", "r", "p", "o", "r",
                           "t">>)>>)

\* the capturing groups are parts 1 and 5
airport_patterns ==
  << IgnoringCase(
       << Cls(Upper, 3, 3), SomeSpace, Lit(<<"-">>), SomeSpace,
          Cat(<<LettersAndSpaces, AirportWord>>) >>),
     IgnoringCase(
       << Cls(Upper, 3, 3), SomeSpace, Lit(<<"t", "o">>), SomeSpace,
                                             Cls(Upper, 3, 3) >>),
     IgnoringCase(
       << Cls(Upper, 3, 3), SomeSpace, Lit(<<"-">>), SomeSpace,
          LettersAndSpaces >>) >>

\* airport_matches: code and name of all the matches of the first pattern,
\* then of the second, then of the third
RECURSIVE AirportMatches(_, _)
AirportMatches(text, k) ==
  IF k > Len(airport_patterns) THEN <<>>
  ELSE (CHOOSE found \in
          { [j \in 1..Len(matches) |->
               [code |-> toUpperCase(Group(text, matches[j], 1)),
                name |-> trim(Group(text, matches[j], 5))]] :
              matches \in {MatchAll(text, airport_patterns[k])} } : TRUE)
       \o AirportMatches(text, k + 1)

\* if (match[1] && !airports.includes(match[1])) airports.push(match[1].trim())
RECURSIVE AirportNames(_, _, _)
AirportNames(text, found, airports) ==
  IF found = <<>> THEN airports
  ELSE AirportNames(text, Tail(found),
         IF Head(found) \in Range(airports) THEN airports
         ELSE Append(airports, trim(Head(found))))

\* \d{1,2}:\d{2}\s*(?:hrs|hours|am|pm)?, whatever the case
time_patterns ==
  << IgnoringCase(
       << Cls(Digits, 1, 2), Lit(<<":">>), Cls(Digits, 2, 2),
          Cls(Spaces, 0, Unlimited),
          Rep(Alt(<<Lit(<<"h", "r", "s">>), Lit(<<"h", "o", "u", "r", "s">>),
                    Lit(<<"a", "m">>), Lit(<<"p", "m">>)>>), 0, 1) >>) >>

\* the airports of the fallback:
\* [A-Z][a-zA-Z\s]+(?:Airport|International Airport)
airport_name_patterns ==
  << << Cat(<<Cls(Upper, 1, 1), LettersAndSpaces, AirportWord>>) >> >>

\* the airline is data.flight_number.match(/^([A-Z]{2,3})/)
extract_flight_data(text) ==
  CHOOSE data \in
    { [pnr |-> ExtractPnr(text, 1),
       passenger_name |-> ExtractPassengerName(text),
       flight_number |-> flight_number,
       airline |->
         IF Truthy(flight_number) /\ airline_match # <<>>
         THEN Group(flight_number, airline_match, 2)
         ELSE Undefined,
       departure_date |-> At(dates, 1),
       arrival_date |-> At(dates, 2),
       departure_time |-> At(times, 1),
       arrival_time |-> At(times, 2),
       departure_airport |->
         IF Len(airport_matches) >= 1 THEN airport_matches[1].code ELSE Undefined,
       arrival_airport |->
         IF Len(airport_matches) >= 2 THEN airport_matches[2].code ELSE Undefined,
       from |->
         IF Len(airport_matches) >= 1
         THEN \* name || code
              IF airport_matches[1].name # <<>> THEN airport_matches[1].name
              ELSE airport_matches[1].code
         ELSE At(airports, 1),
       to |->
         IF Len(airport_matches) >= 2
         THEN IF airport_matches[2].name # <<>> THEN airport_matches[2].name
              ELSE airport_matches[2].code
         ELSE At(airports, 2)] :
        airline_match \in
          { IF Truthy(number) THEN Match(number, <<StartOfText, Cls(Upper, 2, 3)>>)
            ELSE <<>> :
              number \in {ExtractFlightNumber(text, 1)} },
        flight_number \in {ExtractFlightNumber(text, 1)},
        dates \in {Collect(text, date_patterns, 1)},
        times \in
          { [j \in 1..Len(found) |-> trim(found[j])] :
              found \in {Collect(text, time_patterns, 1)} },
        airport_matches \in {AirportMatches(text, 1)},
        airports \in
          {AirportNames(text, Collect(text, airport_name_patterns, 1), <<>>)} } :
      TRUE

(***************************************************************************)
(* hotel.service.ts: validate_hotel_booking and extract_hotel_data.        *)
(***************************************************************************)
hotel_keywords ==
  <<<<"h", "o", "t", "e", "l">>, <<"b", "o", "o", "k", "i", "n", "g">>,
      <<"r", "e", "s", "e", "r", "v", "a", "t", "i", "o", "n">>, <<"c", "h",
      "e", "c", "k", "-", "i", "n">>, <<"c", "h", "e", "c", "k", "-", "o",
      "u", "t">>,
    <<"c", "h", "e", "c", "k", " ", "i", "n">>, <<"c", "h", "e", "c", "k",
      " ", "o", "u", "t">>, <<"g", "u", "e", "s", "t">>, <<"r", "o", "o",
      "m">>, <<"a", "c", "c", "o", "m", "m", "o", "d", "a", "t", "i", "o",
      "n">>,
    <<"c", "o", "n", "f", "i", "r", "m", "a", "t", "i", "o", "n">>, <<"v",
      "i", "l", "l", "a">>, <<"h", "o", "s", "t">>>>

validate_hotel_booking(text) ==
  \E lower_text \in {toLowerCase(text)} :
    Len(FoundKeywords(hotel_keywords, lower_text)) >= 3

\* (?:Villa|Hotel|Resort|Lodge|Inn|Suites|Palace)
HotelWord ==
  Alt(<<Lit(<<"V", "i", "l", "l", "a">>), Lit(<<"H", "o", "t", "e", "l">>),
              Lit(<<"R", "e", "s", "o", "r", "t">>), Lit(<<"L", "o", "d",
              "g", "e">>),
        Lit(<<"I", "n", "n">>), Lit(<<"S", "u", "i", "t", "e", "s">>),
              Lit(<<"P", "a", "l", "a", "c", "e">>)>>)

\* the capturing group is part 2, 1 and 3 of the patterns
hotel_patterns ==
  << IgnoringCase(
       << StartOfText,
          Cat(<<Cls(Letters \cup Digits \cup Spaces, 1, Unlimited),
              HotelWord>>),
          Cls({"."} \cup Spaces, 1, 1) >>),
     IgnoringCase(
       << Cat(<<Cls(Upper, 1, 1), Cls(Letters \cup Spaces \cup {"&"}, 1,
           Unlimited),
                HotelWord>>) >>),
     IgnoringCase(
       << Lit(<<"h", "o", "t", "e", "l">>), Cls({":"} \cup Spaces, 1,
                Unlimited),
          Cat(<<Cls(Upper, 1, 1),
                Cls(Letters \cup Spaces \cup {"&"}, 1, Unlimited)>>) >>) >>

\* for (const pattern of patterns): the group of the first pattern that
\* matches with a group that is not empty
RECURSIVE FirstGroup(_, _, _, _)
FirstGroup(text, patterns, groups, k) ==
  IF k > Len(patterns) THEN Undefined
  ELSE CHOOSE group \in
         { IF match # <<>> /\ Group(text, match, groups[k]) # <<>>
           THEN Group(text, match, groups[k])
           ELSE FirstGroup(text, patterns, groups, k + 1) :
             match \in {Match(text, patterns[k])} } : TRUE

\* label[:\s]+([A-Z0-9]{6,12})
LabelledCode(first, second) ==
  << Lit(first), SomeSpace, Lit(second), Cls({":"} \cup Spaces, 1, Unlimited),
     Cls(Upper \cup Digits, 6, 12) >>

\* the capturing group is part 5 of the labelled patterns, part 2 of the last
confirmation_patterns ==
  << IgnoringCase(LabelledCode(<<"c", "o", "n", "f", "i", "r", "m", "a", "t",
                                 "i", "o", "n">>, <<"c", "o", "d", "e">>)),
     IgnoringCase(LabelledCode(<<"b", "o", "o", "k", "i", "n", "g">>, <<"r",
                                 "e", "f", "e", "r", "e", "n", "c", "e">>)),
     IgnoringCase(LabelledCode(<<"r", "e", "s", "e", "r", "v", "a", "t", "i",
                                 "o", "n">>, <<"i", "d">>)),
     IgnoringCase(
       << WordBoundary,
          Cls(Upper \cup Digits, 8, 12),
          WordBoundary,
          NotFollowedBy(Cat(<<Cls(Spaces, 0, Unlimited),
                              Alt(<<Lit(<<"p", "a", "i", "d">>), Lit(<<"a",
                                          "m", "o", "u", "n", "t">>),
                                    Lit(<<"g", "u", "e", "s", "t",
                                          "s">>)>>)>>)) >>) >>

\* check[- ]?in[:\s]* and check[- ]?out[:\s]*
CheckLabel(word) ==
  << Lit(<<"c", "h", "e", "c", "k">>), Cls({"-", " "}, 0, 1), Lit(word),
     Cls({":"} \cup Spaces, 0, Unlimited) >>

\* (\d{1,2}):(\d{2})\s*(AM|PM): the groups are parts 1, 3 and 5
ClockTime ==
  << Cls(Digits, 1, 2), Lit(<<":">>), Cls(Digits, 2, 2), Cls(Spaces, 0, Unlimited),
     Alt(<<Lit(<<"A", "M">>), Lit(<<"P", "M">>)>>) >>

\* ([A-Za-z]{3}),\s+([A-Za-z]{3})\s+(\d{1,2}): the groups are parts 1, 4 and 6
DayAndMonth ==
  << Cls(Letters, 3, 3), Lit(<<",">>), SomeSpace, Cls(Letters, 3, 3),
                               SomeSpace,
     Cls(Digits, 1, 2) >>

check_in_patterns ==
  << IgnoringCase(CheckLabel(<<"i", "n">>) \o ClockTime),
     IgnoringCase(CheckLabel(<<"i", "n">>) \o DayAndMonth),
     IgnoringCase(ClockTime \o <<SomeSpace>> \o DayAndMonth) >>

check_out_patterns ==
  << IgnoringCase(CheckLabel(<<"o", "u", "t">>) \o ClockTime),
     IgnoringCase(CheckLabel(<<"o", "u", "t">>) \o DayAndMonth) >>

\* `${match[a]}:${match[b]} ${match[c]}` of the groups at the parts a, b, c
TimeOf(text, match, a, b, c) ==
  Group(text, match, a) \o <<":">> \o Group(text, match, b) \o <<" ">>
    \o Group(text, match, c)

\* `${match[1]}, ${match[2]} ${match[3]}` of a match of DayAndMonth
DateOf(text, match) ==
  Group(text, match, 1) \o <<",", " ">> \o Group(text, match, 4) \o <<" ">>
    \o Group(text, match, 6)

\* the loop over check_in_patterns: at the first pattern that matches, the
\* time after the label and the first date of the text are taken
CheckIn(text) ==
  IF \A k \in 1..Len(check_in_patterns) : Match(text, check_in_patterns[k]) = <<>>
  THEN [time |-> Undefined, date |-> Undefined]
  ELSE CHOOSE check_in \in
         { [time |-> IF time_match # <<>> THEN TimeOf(text, time_match, 5, 7,
             9)
                     ELSE Undefined,
            date |-> IF date_match # <<>> THEN DateOf(text, date_match)
                     ELSE Undefined] :
             time_match \in {Match(text, check_in_patterns[1])},
             date_match \in {Match(text, DayAndMonth)} } : TRUE

\* the loop over check_out_patterns, which has no break: a match whose first
\* group has at most 2 characters gives the time
RECURSIVE CheckOutTime(_, _, _)
CheckOutTime(text, k, check_out_time) ==
  IF k > Len(check_out_patterns) THEN check_out_time
  ELSE CHOOSE time \in
         { CheckOutTime(text, k + 1,
             IF /\ match # <<>>
                /\ Group(text, match, 5) # <<>>
                /\ Group(text, match, IF k = 1 THEN 7 ELSE 8) # <<>>
                /\ Group(text, match, IF k = 1 THEN 9 ELSE 10) # <<>>
                /\ Len(Group(text, match, 5)) <= 2
             THEN TimeOf(text, match, 5, IF k = 1 THEN 7 ELSE 8,
                         IF k = 1 THEN 9 ELSE 10)
             ELSE check_out_time) :
             match \in {Match(text, check_out_patterns[k])} } : TRUE

\* [A-Z][a-zA-Z\s,]+ and [A-Z][a-zA-Z\s]+
PlaceWords(chars) ==
  <<Cls(Upper, 1, 1), Cls(Letters \cup Spaces \cup chars, 1, Unlimited)>>

\* the capturing group is part 3, 1 and 1 of the patterns
place_patterns ==
  << IgnoringCase(
       << Lit(<<"a", "d", "d", "r", "e", "s", "s">>), Cls({":"} \cup Spaces,
                1, Unlimited),
          Cat(PlaceWords({","})
              \o <<Alt(<<Lit(<<"E", "m", "i", "r", "a", "t", "e", "s">>),
                               Lit(<<"C", "o", "u", "n", "t", "r", "y">>),
                               Lit(<<"S", "t", "a", "t", "e">>),
                         Lit(<<"C", "i", "t", "y">>)>>)>>) >>),
     IgnoringCase(
       << Cat(PlaceWords({})
              \o <<Alt(<<Lit(<<"H", "i", "l", "l", "s">>), Lit(<<"C", "i",
                               "t", "y">>), Lit(<<"D", "u", "b", "a", "i">>),
                         Lit(<<"A", "b", "u", " ", "D", "h", "a", "b",
                               "i">>), Lit(<<"E", "m", "i", "r", "a", "t",
                               "e", "s">>)>>)>>) >>),
     IgnoringCase(
       << Cat(PlaceWords({","})
              \o <<Alt(<<Lit(<<"U", "n", "i", "t", "e", "d", " ", "A", "r",
                               "a", "b", " ", "E", "m", "i", "r", "a", "t",
                               "e", "s">>), Lit(<<"U", "A", "E">>),
                         Lit(<<"U", "S", "A">>), Lit(<<"U",
                               "K">>)>>)>>) >>) >>

\* for (const pattern of place_patterns): the first pattern whose trimmed
\* group names neither a villa nor a hotel
RECURSIVE ExtractPlace(_, _)
ExtractPlace(text, k) ==
  IF k > Len(place_patterns) THEN Undefined
  ELSE CHOOSE place \in
         { IF /\ match # <<>>
              /\ Group(text, match, group) # <<>>
              /\ ~Includes(toLowerCase(trim(Group(text, match, group))),
                           <<"v", "i", "l", "l", "a">>)
              /\ ~Includes(toLowerCase(trim(Group(text, match, group))),
                           <<"h", "o", "t", "e", "l">>)
           THEN trim(Group(text, match, group))
           ELSE ExtractPlace(text, k + 1) :
             match \in {Match(text, place_patterns[k])},
             group \in {<<3, 1, 1>>[k]} } : TRUE

\* the capturing group is part 7 and 4 of the patterns
guest_patterns ==
  << IgnoringCase(
       << Lit(<<"w", "h", "o">>), Cls({"'"}, 0, 1), Lit(<<"s">>), SomeSpace,
                Lit(<<"c", "o", "m", "i", "n", "g">>),
          SomeSpace,
          Cat(<<Cls(Letters \cup Spaces \cup {","}, 1, Unlimited),
                Alt(<<Lit(<<"P", "a", "t", "e", "l">>), Lit(<<"D", "o",
                            "e">>), Lit(<<"S", "m", "i", "t", "h">>),
                      Lit(<<"e", "t", "c">>)>>)>>) >>),
     IgnoringCase(
       << Lit(<<"g", "u", "e", "s", "t">>), Cls({"s"}, 0, 1),
                Cls({":"} \cup Spaces, 1, Unlimited),
          Cls(Letters \cup Spaces \cup {","}, 1, Unlimited) >>) >>

\* The hotel name is the trimmed group without a final dot,
\* replace(/\.$/, ''); the code is the group in upper case; the guest is the
\* first of guests.split(','), when it is not empty; the times of the
\* fallback match
\* (\d{1,2}):(\d{2})\s*(AM|PM)\s+(\d{1,2}):(\d{2})\s*(AM|PM)
extract_hotel_data(text) ==
  CHOOSE data \in
    { [hotel_name |->
         IF hotel_name = Undefined THEN Undefined
         ELSE IF hotel_name # <<>> /\ hotel_name[Len(hotel_name)] = "."
         THEN SubSeq(hotel_name, 1, Len(hotel_name) - 1)
         ELSE hotel_name,
       confirmation_code |-> confirmation_code,
       booking_reference |-> confirmation_code,
       check_in_date |->
         IF check_in.date # Undefined THEN check_in.date ELSE At(dates_array,
             1),
       check_in_time |->
         IF check_in.time # Undefined THEN check_in.time
         ELSE IF times_match # <<>> THEN TimeOf(text, times_match, 1, 3, 5)
         ELSE Undefined,
       check_out_date |-> At(dates_array, 2),
       check_out_time |->
         IF check_out_time # Undefined THEN check_out_time
         ELSE IF times_match # <<>> THEN TimeOf(text, times_match, 7, 9, 11)
         ELSE Undefined,
       place |-> place,
       address |-> place,
       guest_name |->
         IF guest = Undefined \/ guest = <<>> THEN Undefined ELSE guest] :
        hotel_name \in
          { IF group = Undefined THEN Undefined ELSE trim(group) :
              group \in {FirstGroup(text, hotel_patterns, <<2, 1, 3>>, 1)} },
        confirmation_code \in
          { IF group = Undefined THEN Undefined ELSE toUpperCase(group) :
              group \in {FirstGroup(text, confirmation_patterns, <<5, 5, 5, 2>>, 1)} },
        check_in \in {CheckIn(text)},
        check_out_time \in {CheckOutTime(text, 1, Undefined)},
        dates_array \in
          { [j \in 1..Len(all_dates) |-> DateOf(text, all_dates[j])] :
              all_dates \in {MatchAll(text, DayAndMonth)} },
        times_match \in
          {Match(text, IgnoringCase(ClockTime \o <<SomeSpace>> \o ClockTime))},
        place \in {ExtractPlace(text, 1)},
        guest \in
          { IF guests = Undefined THEN Undefined
            ELSE IF \A k \in 1..Len(guests) : guests[k] # "," THEN guests
            ELSE trim(SubSeq(guests, 1,
                   (CHOOSE k \in 1..Len(guests) :
                      guests[k] = "," /\ \A j \in 1..(k - 1) : guests[j] # ",") - 1)) :
              guests \in
                { IF group = Undefined THEN Undefined ELSE trim(group) :
                    group \in {FirstGroup(text, guest_patterns, <<7, 4>>, 1)} } } } :
      TRUE

(***************************************************************************)
(* The texts the recognition returns: up to MaxLines lines of a ticket or  *)
(* of a booking, and the flight text of the README.                        *)
(***************************************************************************)
\* lines.join(separator)
RECURSIVE Join(_, _)
Join(lines, separator) ==
  IF lines = <<>> THEN <<>>
  ELSE IF Len(lines) = 1 THEN lines[1]
  ELSE lines[1] \o separator \o Join(Tail(lines), separator)

TextsOf(lines) ==
  {Join(chosen, <<"\n">>) : chosen \in UNION {[1..len -> lines] : len \in 0..MaxLines}}

\* the lines of the README's example, in their order, one per line and all
\* on one line
ExampleTexts ==
  { Join(lines, separator) :
      separator \in {<<"\n">>, <<" ">>},
      lines \in
        {<<<<"P", "N", "R", ":", " ", "S", "I", "S", "C", "P", "F">>, <<"6", "E",
            " ", "1", "4", "0", "2">>, <<"2", "1", " ", "A", "p", "r", " ", "2",
            "0", "2", "5">>, <<"2", "3", " ", "A", "p", "r", " ", "2", "0", "2",
            "5">>, <<"0", "6", ":", "2", "0", " ", "h", "r", "s">>,
          <<"2", "1", ":", "5", "5", " ", "h", "r", "s">>, <<"B", "O", "M", " ",
            "-", " ", "C", "h", "h", "a", "t", "r", "a", "p", "a", "t", "i", " ",
            "S", "h", "i", "v", "a", "j", "i", " ", "M", "a", "h", "a", "r", "a",
            "j", " ", "I", "n", "t", "e", "r", "n", "a", "t", "i", "o", "n", "a",
            "l", " ", "A", "i", "r", "p", "o", "r", "t">>,
          <<"A", "U", "H", " ", "-", " ", "A", "b", "u", " ", "D", "h", "a", "b",
            "i", " ", "I", "n", "t", "e", "r", "n", "a", "t", "i", "o", "n", "a",
            "l", " ", "A", "i", "r", "p", "o", "r", "t">>>>} }

FlightTexts ==
  TextsOf(
    {<<"P", "N", "R", ":", " ", "S", "I", "S", "C", "P", "F">>, <<"F", "l",
       "i", "g", "h", "t", " ", "6", "E", " ", "1", "4", "0", "2">>, <<"P",
       "a", "s", "s", "e", "n", "g", "e", "r", ":", " ", "A", "B", " ", "C",
       "D">>, <<"P", "a", "s", "s", "e", "n", "g", "e", "r", ":", " ", "X",
       "y", " ", "Z", "w">>,
     <<"B", "o", "a", "r", "d", "i", "n", "g", " ", "G", "a", "t", "e", " ",
       "5">>, <<"s", "e", "a", "t", " ", "S", "E", "A", "T", " ", "S", "e",
       "a", "t">>, <<"2", "1", " ", "A", "p", "r", " ", "2", "0", "2", "5",
       " ", "0", "6", ":", "2", "0", " ", "h", "r", "s">>,
     <<"B", "O", "M", " ", "-", " ", "P", "u", "n", "e", " ", "A", "i", "r",
       "p", "o", "r", "t">>,
     \* "DEL to GOI, Goa Airport, Pune Airport"
     <<"D", "E", "L", " ", "t", "o", " ", "G", "O", "I", ",", " ", "G", "o",
       "a", " ", "A", "i", "r", "p", "o", "r", "t", ",", " ", "P", "u", "n",
       "e", " ", "A", "i", "r", "p", "o", "r", "t">>,
     \* "QWE123 hrs ZXC456"
     <<"Q", "W", "E", "1", "2", "3", " ", "h", "r", "s", " ", "Z", "X", "C",
       "4", "5", "6">>,
     \* "ai 302 12/04/25" and "Passenger Information Abu Dhabi"
     <<"a", "i", " ", "3", "0", "2", " ", "1", "2", "/", "0", "4", "/", "2",
       "5">>,
     <<"P", "a", "s", "s", "e", "n", "g", "e", "r", " ", "I", "n", "f", "o",
       "r", "m", "a", "t", "i", "o", "n", " ", "A", "b", "u", " ", "D", "h",
       "a", "b", "i">>})
  \cup ExampleTexts

HotelTexts ==
  TextsOf(
    {<<"S", "e", "a", " ", "V", "i", "e", "w", " ", "H", "o", "t", "e", "l",
       " ", "R", "e", "s", "e", "r", "v", "a", "t", "i", "o", "n">>, <<"C",
       "o", "n", "f", "i", "r", "m", "a", "t", "i", "o", "n", " ", "c", "o",
       "d", "e", ":", " ", "H", "M", "1", "2", "3", "4", "5", "6", "7", "8">>,
     <<"C", "h", "e", "c", "k", "-", "i", "n", ":", " ", "3", ":", "0", "0",
       "P", "M", " ", "M", "o", "n", ",", " ", "A", "p", "r", " ", "2", "1">>,
       <<"G", "u", "e", "s", "t", "s", ":", " ", "A", "B", " ", "C", "D", ",",
       " ", "E", "f", " ", "G", "h">>, <<"G", "u", "e", "s", "t", "s", ":",
       " ", "X", "y", " ", "Z", "w">>,
     <<"H", "o", "s", "t", " ", "R", "O", "O", "M", " ", "r", "o", "o", "m",
       " ", "R", "o", "o", "m">>, <<"D", "u", "b", "a", "i", " ", "H", "i",
       "l", "l", "s">>,
     \* "Check-out: 11:00AM Wed, Apr 23"
     <<"C", "h", "e", "c", "k", "-", "o", "u", "t", ":", " ", "1", "1", ":",
       "0", "0", "A", "M", " ", "W", "e", "d", ",", " ", "A", "p", "r", " ",
       "2", "3">>})

\* what validate_flight_ticket and extract_flight_data make of each text,
\* computed once
FlightReadings ==
  { [text |-> text, valid |-> validate_flight_ticket(text),
     data |-> extract_flight_data(text)] : text \in FlightTexts }

HotelReadings ==
  { [text |-> text, valid |-> validate_hotel_booking(text),
     data |-> extract_hotel_data(text)] : text \in HotelTexts }

Reading(readings, text) == CHOOSE reading \in readings : reading.text = text

\* the texts of the documents of a batch: too few keywords, no name, a name
\* that is a traveller's, a name that is nobody's
FlightSamples ==
  { Join(<<<<"P", "N", "R", ":", " ", "S", "I", "S", "C", "P", "F">>, <<"F",
             "l", "i", "g", "h", "t", " ", "6", "E", " ", "1", "4", "0",
             "2">>>>, <<"\n">>),
    Join(<<<<"B", "o", "a", "r", "d", "i", "n", "g", " ", "G", "a", "t", "e",
             " ", "5">>, <<"s", "e", "a", "t", " ", "S", "E", "A", "T", " ",
             "S", "e", "a", "t">>>>, <<"\n">>),
    Join(<<<<"B", "o", "a", "r", "d", "i", "n", "g", " ", "G", "a", "t", "e",
             " ", "5">>, <<"P", "a", "s", "s", "e", "n", "g", "e", "r", ":",
             " ", "A", "B", " ", "C", "D">>>>, <<"\n">>),
    Join(<<<<"B", "o", "a", "r", "d", "i", "n", "g", " ", "G", "a", "t", "e",
             " ", "5">>, <<"P", "a", "s", "s", "e", "n", "g", "e", "r", ":",
             " ", "X", "y", " ", "Z", "w">>>>, <<"\n">>) }

HotelSamples ==
  { <<"S", "e", "a", " ", "V", "i", "e", "w", " ", "H", "o", "t", "e", "l",
      " ", "R", "e", "s", "e", "r", "v", "a", "t", "i", "o", "n">>,
    Join(<<<<"S", "e", "a", " ", "V", "i", "e", "w", " ", "H", "o", "t", "e",
             "l", " ", "R", "e", "s", "e", "r", "v", "a", "t", "i", "o",
             "n">>, <<"H", "o", "s", "t", " ", "R", "O", "O", "M", " ", "r",
             "o", "o", "m", " ", "R", "o", "o", "m">>>>, <<"\n">>),
    Join(<<<<"S", "e", "a", " ", "V", "i", "e", "w", " ", "H", "o", "t", "e",
             "l", " ", "R", "e", "s", "e", "r", "v", "a", "t", "i", "o",
             "n">>, <<"G", "u", "e", "s", "t", "s", ":", " ", "A", "B", " ",
             "C", "D", ",", " ", "E", "f", " ", "G", "h">>>>, <<"\n">>),
    Join(<<<<"S", "e", "a", " ", "V", "i", "e", "w", " ", "H", "o", "t", "e",
             "l", " ", "R", "e", "s", "e", "r", "v", "a", "t", "i", "o",
             "n">>, <<"G", "u", "e", "s", "t", "s", ":", " ", "X", "y", " ",
             "Z", "w">>>>, <<"\n">>) }

\* download and recognition succeed
TicketEnvs(texts) == [download : {"ok"}, ocr : {"ok"}, text : texts]

\* the download fails, or a call of the Tesseract worker does
TicketFailures ==
  [download : {"not_ok", "rejected"}, ocr : {"ok"}, text : {Undefined}]
  \cup [download : {"ok"}, ocr : {"rejected"}, text : {Undefined}]

\* variant: a ticket without PNR and without passenger name is not accepted
process_flight_ocr_needs_essentials(file_url, env) ==
  LET err(msg) ==
        [status |-> "error", data |-> NoData, error |-> msg,
         raw_text |-> Undefined]
  IN IF env.download = "rejected" THEN err("fetch failed")
     ELSE IF env.download = "not_ok" THEN err("Failed to download flight ticket")
     ELSE IF env.ocr = "rejected" THEN err("Tesseract worker failed")
     ELSE CHOOSE outcome \in
            { IF \/ ~reading.valid
                 \/ /\ ~Truthy(reading.data.pnr)
                    /\ ~Truthy(reading.data.passenger_name)
              THEN [status |-> "invalid", data |-> NoData,
                    error |-> "Text does not contain flight ticket information",
                    raw_text |-> env.text]
              ELSE [status |-> "success", data |-> reading.data,
                    error |-> UndefinedStr, raw_text |-> env.text] :
                reading \in {Reading(FlightReadings, env.text)} } : TRUE

process_flight_ocr(file_url, env) ==
  LET err(msg) ==
        [status |-> "error", data |-> NoData, error |-> msg,
         raw_text |-> Undefined]
  IN IF env.download = "rejected" THEN err("fetch failed")
     ELSE IF env.download = "not_ok" THEN err("Failed to download flight ticket")
     ELSE IF env.ocr = "rejected" THEN err("Tesseract worker failed")
     ELSE CHOOSE outcome \in
            { IF ~reading.valid
              THEN [status |-> "invalid", data |-> NoData,
                    error |-> "Text does not contain flight ticket information",
                    raw_text |-> env.text]
              ELSE \* without PNR and passenger name: logger.warn only
                   [status |-> "success", data |-> reading.data,
                    error |-> UndefinedStr, raw_text |-> env.text] :
                reading \in {Reading(FlightReadings, env.text)} } : TRUE

process_hotel_ocr(file_url, env) ==
  LET err(msg) ==
        [status |-> "error", data |-> NoData, error |-> msg,
         raw_text |-> Undefined]
  IN IF env.download = "rejected" THEN err("fetch failed")
     ELSE IF env.download = "not_ok" THEN err("Failed to download hotel booking")
     ELSE IF env.ocr = "rejected" THEN err("Tesseract worker failed")
     ELSE CHOOSE outcome \in
            { IF ~reading.valid
              THEN [status |-> "invalid", data |-> NoData,
                    error |-> "Text does not contain hotel booking information",
                    raw_text |-> env.text]
              ELSE \* without hotel name and confirmation code: logger.warn only
                   [status |-> "success", data |-> reading.data,
                    error |-> UndefinedStr, raw_text |-> env.text] :
                reading \in {Reading(HotelReadings, env.text)} } : TRUE

NoResult == [status |-> UndefinedStr, data |-> NoData, error |-> UndefinedStr]

(***************************************************************************)
(* State.                                                                  *)
(***************************************************************************)
VARIABLES
  pc,                  \* where the request / the background task stands
  request,             \* req.body of the request received
  response,            \* the HTTP response sent to the caller
  order_id,            \* arguments of process_documents_async
  documents,
  passport_docs,       \* Map traveller_id -> {front, back}, insertion order
  flight_docs,
  hotel_docs,
  loop,                \* the for loop being run: passport, flight, hotel
  i,                   \* its position
  result,              \* passport_result / flight_result / hotel_result
  mapped_traveller_id,
  caught,              \* message of the error a unit's try block threw
  events,              \* calls of publish_progress, in order
  ocr_calls,           \* calls of the extractors, in order
  matcher_calls,       \* calls of map_ticket_to_passenger, in order
  posts,               \* POSTs to /order/{order_id}/ocr-results, in order
  error_log,           \* logger.warn / logger.error of the failures
  faults,              \* failed external calls so far
  invoked,             \* the exported function called directly, its arguments
  value,               \* the value it returned
  redis,               \* the messages the Redis server received, all channels
  backend,             \* the POSTs the main backend received, all orders
  temp_files,          \* the files in os.tmpdir()
  temp_paths,          \* front_temp_path, back_temp_path of the call under way
  suspended            \* a second invocation that waits at an await

vars ==
  <<pc, request, response, order_id, documents, passport_docs, flight_docs, hotel_docs,
    loop, i, result, mapped_traveller_id, caught, events, ocr_calls,
    matcher_calls, posts, error_log, faults, invoked, value, redis, backend,
    temp_files, temp_paths, suspended>>

\* no second invocation of process_documents_async is under way
NoInvocation == [pc |-> "none"]

\* no function has been called directly
NoCall == [fn |-> "none", args |-> <<>>]


Init ==
  /\ pc = "idle"
  /\ request = [order_id |-> UndefinedStr, documents |-> [kind |-> "missing", items |-> <<>>]]
  /\ response = [code |-> 0, status |-> UndefinedStr, order_id |-> UndefinedStr]
  /\ order_id = UndefinedStr
  /\ documents = <<>>
  /\ passport_docs = <<>>
  /\ flight_docs = <<>>
  /\ hotel_docs = <<>>
  /\ loop = "none"
  /\ i = 0
  /\ result = NoResult
  /\ mapped_traveller_id = UndefinedStr
  /\ caught = UndefinedStr
  /\ events = <<>>
  /\ ocr_calls = <<>>
  /\ matcher_calls = <<>>
  /\ posts = <<>>
  /\ error_log = <<>>
  /\ faults = 0
  /\ invoked = NoCall
  /\ value = Undefined
  /\ redis = <<>>
  /\ backend = <<>>
  /\ temp_files = {}
  /\ temp_paths = {}
  /\ suspended = NoInvocation

\* position of the next observable step in the run
Clock == Len(events) + Len(ocr_calls) + Len(posts) + 1

\* outcomes an external call may have, failures within the fault budget
Outcomes(ok, failures) == IF faults < MaxFaults THEN ok \cup failures ELSE ok

(***************************************************************************)
(* config/redis.ts and publish_progress.                                   *)
(***************************************************************************)
\* variant: the catch block logs the error and rethrows it
publish_to_redis_rethrows(channel, message, redis_ok) ==
  [thrown |-> ~redis_ok, delivered |-> redis_ok, logged |-> ~redis_ok]

\* publisher.publish resolves (redis_ok) or rejects; the catch block logs
\* the error and does not rethrow
publish_to_redis(channel, message, redis_ok) ==
  [thrown |-> FALSE, delivered |-> redis_ok, logged |-> ~redis_ok]

publish_progress(channel, data, redis_ok) ==
  LET r == publish_to_redis(channel, data, redis_ok)
  IN [thrown |-> r.thrown, logged |-> r.logged,
      message |-> [channel |-> channel, data |-> data,
                   delivered |-> r.delivered, at |-> Clock]]

\* variant: the progress event does not carry the extracted fields
ProgressData_without_extracted_data(oid, tid, tname, did, dtype, status, data, error) ==
  [order_id |-> oid, traveller_id |-> tid, traveller_name |-> tname,
   document_id |-> did, document_type |-> dtype, status |-> status,
   extracted_data |-> NoData, error |-> error]

ProgressData(oid, tid, tname, did, dtype, status, data, error) ==
  [order_id |-> oid, traveller_id |-> tid, traveller_name |-> tname,
   document_id |-> did, document_type |-> dtype, status |-> status,
   extracted_data |-> data, error |-> error]

(***************************************************************************)
(* process.router: POST /process/documents.                                *)
(***************************************************************************)
\* variant: documents is not checked to be an array
PostDocuments_no_array_check(body) ==
  /\ request' = body
  /\ IF body.order_id \in {UndefinedStr, ""}
     THEN /\ response' = [code |-> 400, status |-> "VALIDATION_ERROR",
                          order_id |-> UndefinedStr]
          /\ pc' = "rejected"
          /\ UNCHANGED <<order_id, documents>>
     ELSE /\ response' = [code |-> 202, status |-> "accepted",
                          order_id |-> body.order_id]
          /\ pc' = "scheduled"
          /\ order_id' = body.order_id
          /\ documents' = body.documents.items
  /\ UNCHANGED <<passport_docs, flight_docs, hotel_docs, loop, i, result,
                 mapped_traveller_id, caught, events, ocr_calls, matcher_calls,
                 posts, error_log, faults, redis, backend>>

\* variant: the acknowledgement is not sent before the work is scheduled
PostDocuments_no_early_response(body) ==
  /\ request' = body
  /\ IF body.order_id \in {UndefinedStr, ""} \/ body.documents.kind # "array"
     THEN /\ response' = [code |-> 400, status |-> "VALIDATION_ERROR",
                          order_id |-> UndefinedStr]
          /\ pc' = "rejected"
          /\ UNCHANGED <<order_id, documents>>
     ELSE /\ response' = response
          /\ pc' = "scheduled"
          /\ order_id' = body.order_id
          /\ documents' = body.documents.items
  /\ UNCHANGED <<passport_docs, flight_docs, hotel_docs, loop, i, result,
                 mapped_traveller_id, caught, events, ocr_calls, matcher_calls,
                 posts, error_log, faults, redis, backend>>

PostDocuments(body) ==
  /\ request' = body
  /\ IF body.order_id \in {UndefinedStr, ""} \/ body.documents.kind # "array"
     THEN /\ response' = [code |-> 400, status |-> "VALIDATION_ERROR",
                          order_id |-> UndefinedStr]
          /\ pc' = "rejected"
          /\ UNCHANGED <<order_id, documents>>
     ELSE /\ response' = [code |-> 202, status |-> "accepted",
                          order_id |-> body.order_id]
          /\ pc' = "scheduled"
          /\ order_id' = body.order_id
          /\ documents' = body.documents.items
  /\ UNCHANGED <<passport_docs, flight_docs, hotel_docs, loop, i, result,
                 mapped_traveller_id, caught, events, ocr_calls, matcher_calls,
                 posts, error_log, faults, redis, backend>>

(***************************************************************************)
(* process_documents_async: grouping.                                      *)
(***************************************************************************)
IndexOfTraveller(pairs, tid) ==
  IF \E k \in 1..Len(pairs) : pairs[k].traveller_id = tid
  THEN CHOOSE k \in 1..Len(pairs) : pairs[k].traveller_id = tid
  ELSE 0

\* variant: a side that is already set is kept,
\* if (!passport_pair.front) passport_pair.front = doc
RECURSIVE GroupPassports_first_listed(_, _, _)
GroupPassports_first_listed(docs, k, pairs) ==
  IF k > Len(docs) THEN pairs
  ELSE LET doc == docs[k]
           known == IndexOfTraveller(pairs, doc.traveller_id)
           with_entry ==
             IF known = 0
             THEN Append(pairs, [traveller_id |-> doc.traveller_id,
                                 front |-> NoDoc, back |-> NoDoc])
             ELSE pairs
           at == IndexOfTraveller(with_entry, doc.traveller_id)
       IN IF doc.document_type = "passport_front"
          THEN GroupPassports_first_listed(docs, k + 1,
                 IF with_entry[at].front # NoDoc THEN with_entry
                 ELSE [with_entry EXCEPT ![at].front = doc])
          ELSE IF doc.document_type = "passport_back"
          THEN GroupPassports_first_listed(docs, k + 1,
                 IF with_entry[at].back # NoDoc THEN with_entry
                 ELSE [with_entry EXCEPT ![at].back = doc])
          ELSE GroupPassports_first_listed(docs, k + 1, pairs)

\* the grouping loop over documents[k..], passports only
RECURSIVE GroupPassports(_, _, _)
GroupPassports(docs, k, pairs) ==
  IF k > Len(docs) THEN pairs
  ELSE LET doc == docs[k]
           known == IndexOfTraveller(pairs, doc.traveller_id)
           with_entry ==
             IF known = 0
             THEN Append(pairs, [traveller_id |-> doc.traveller_id,
                                 front |-> NoDoc, back |-> NoDoc])
             ELSE pairs
           at == IndexOfTraveller(with_entry, doc.traveller_id)
       IN IF doc.document_type = "passport_front"
          THEN GroupPassports(docs, k + 1, [with_entry EXCEPT ![at].front = doc])
          ELSE IF doc.document_type = "passport_back"
          THEN GroupPassports(docs, k + 1, [with_entry EXCEPT ![at].back = doc])
          ELSE GroupPassports(docs, k + 1, pairs)

IsFlight(doc) == doc.document_type = "flight"
\* variant: the grouping loop ends in a plain else, every document that is
\* neither a passport side nor a flight is taken as a hotel booking
IsHotel_any_other(doc) ==
  doc.document_type \notin {"passport_front", "passport_back", "flight"}
\* variant: the hotel branch of the grouping loop tests a misspelt type
IsHotel_misspelt(doc) == doc.document_type = "hotels"
IsHotel(doc) == doc.document_type = "hotel"

\* variant: the pair check looks at the front side only
has_both_sides_front_only(passport_pair) == passport_pair.front # NoDoc

\* if (passport_pair.front && passport_pair.back)
has_both_sides(passport_pair) ==
  passport_pair.front # NoDoc /\ passport_pair.back # NoDoc

\* variant: the hotel loop is missing
NextUnit_no_hotel_loop(pairs, flights, hotels, lp, from) ==
  LET ready == {k \in from..Len(pairs) : has_both_sides(pairs[k])}
      flight_from == IF lp = "flight" THEN from ELSE 1
  IN IF lp = "passport" /\ ready # {}
     THEN [loop |-> "passport", i |-> CHOOSE k \in ready : \A m \in ready : k <= m,
           pc |-> "publish_processing"]
     ELSE IF lp \in {"passport", "flight"} /\ flight_from <= Len(flights)
     THEN [loop |-> "flight", i |-> flight_from, pc |-> "publish_processing"]
     ELSE [loop |-> "none", i |-> 0, pc |-> "completed"]

\* variant: the hotel loop stands before the flight loop
NextUnit_hotels_first(pairs, flights, hotels, lp, from) ==
  LET ready == {k \in from..Len(pairs) : has_both_sides(pairs[k])}
      flight_from == IF lp = "flight" THEN from ELSE 1
      hotel_from == IF lp = "hotel" THEN from ELSE 1
  IN IF lp = "passport" /\ ready # {}
     THEN [loop |-> "passport", i |-> CHOOSE k \in ready : \A m \in ready : k <= m,
           pc |-> "publish_processing"]
     ELSE IF lp \in {"passport", "hotel"} /\ hotel_from <= Len(hotels)
     THEN [loop |-> "hotel", i |-> hotel_from, pc |-> "publish_processing"]
     ELSE IF flight_from <= Len(flights)
     THEN [loop |-> "flight", i |-> flight_from, pc |-> "publish_processing"]
     ELSE [loop |-> "none", i |-> 0, pc |-> "completed"]

\* the unit the three loops reach next, from position `from` of loop `lp`
NextUnit(pairs, flights, hotels, lp, from) ==
  LET ready == {k \in from..Len(pairs) : has_both_sides(pairs[k])}
      flight_from == IF lp = "flight" THEN from ELSE 1
      hotel_from == IF lp = "hotel" THEN from ELSE 1
  IN IF lp = "passport" /\ ready # {}
     THEN [loop |-> "passport", i |-> CHOOSE k \in ready : \A m \in ready : k <= m,
           pc |-> "publish_processing"]
     ELSE IF lp \in {"passport", "flight"} /\ flight_from <= Len(flights)
     THEN [loop |-> "flight", i |-> flight_from, pc |-> "publish_processing"]
     ELSE IF hotel_from <= Len(hotels)
     THEN [loop |-> "hotel", i |-> hotel_from, pc |-> "publish_processing"]
     ELSE [loop |-> "none", i |-> 0, pc |-> "completed"]

\* the setImmediate callback starts process_documents_async
StartProcessing ==
  /\ pc = "scheduled"
  /\ UNCHANGED <<invoked, value, temp_files, temp_paths, suspended>>
  /\ LET pairs == GroupPassports(documents, 1, <<>>)
         flights == SelectSeq(documents, IsFlight)
         hotels == SelectSeq(documents, IsHotel)
         next == NextUnit(pairs, flights, hotels, "passport", 1)
     IN /\ passport_docs' = pairs
        /\ flight_docs' = flights
        /\ hotel_docs' = hotels
        /\ loop' = next.loop
        /\ i' = next.i
        /\ pc' = next.pc
  /\ UNCHANGED <<request, response, order_id, documents, result, mapped_traveller_id,
                 caught, events, ocr_calls, matcher_calls, posts, error_log,
                 faults, redis, backend>>

(***************************************************************************)
(* process_documents_async: one processing unit.                           *)
(***************************************************************************)
\* `${env.redis.ocr_progress_channel}:${order_id}`
channel == <<"ocr_progress", order_id>>

passport_pair == passport_docs[i]
ticket_doc == IF loop = "flight" THEN flight_docs[i] ELSE hotel_docs[i]

all_travellers ==
  [k \in 1..Len(documents) |->
     [traveller_id |-> documents[k].traveller_id,
      traveller_name |-> documents[k].traveller_name]]

\* all_travellers.find(t => t.traveller_id === id)?.traveller_name || fallback
NameOfTraveller(travellers, id, fallback) ==
  LET hits == {k \in 1..Len(travellers) : travellers[k].traveller_id = id}
      first == CHOOSE k \in hits : \A m \in hits : k <= m
  IN IF hits # {} /\ Truthy(travellers[first].traveller_name)
     THEN travellers[first].traveller_name
     ELSE fallback

\* variant: a unit whose extraction did not succeed ends the batch
Advance_stop_on_failure ==
  LET next == IF result.status \in {"error", "invalid"}
              THEN [loop |-> "none", i |-> 0, pc |-> "completed"]
              ELSE NextUnit(passport_docs, flight_docs, hotel_docs, loop, i + 1)
  IN /\ loop' = next.loop
     /\ i' = next.i
     /\ pc' = next.pc
     /\ result' = NoResult
     /\ mapped_traveller_id' = UndefinedStr
     /\ caught' = UndefinedStr

\* variant: a unit whose extraction ended in 'error' is run again
Advance_retry_on_error ==
  LET next == IF result.status = "error"
              THEN [loop |-> loop, i |-> i, pc |-> "publish_processing"]
              ELSE NextUnit(passport_docs, flight_docs, hotel_docs, loop, i + 1)
  IN /\ loop' = next.loop
     /\ i' = next.i
     /\ pc' = next.pc
     /\ result' = NoResult
     /\ mapped_traveller_id' = UndefinedStr
     /\ caught' = UndefinedStr

\* leave the unit: the loops go on with the next one
Advance ==
  LET next == NextUnit(passport_docs, flight_docs, hotel_docs, loop, i + 1)
  IN /\ loop' = next.loop
     /\ i' = next.i
     /\ pc' = next.pc
     /\ result' = NoResult
     /\ mapped_traveller_id' = UndefinedStr
     /\ caught' = UndefinedStr

\* variant: no try/catch around the unit, the error leaves the loops
Throw_uncaught(message) ==
  /\ pc' = "aborted"
  /\ caught' = message
  /\ UNCHANGED <<loop, i, result, mapped_traveller_id>>

\* a statement of the try block threw: control goes to the unit's catch
Throw(message) ==
  /\ pc' = "catch"
  /\ caught' = message
  /\ UNCHANGED <<loop, i, result, mapped_traveller_id>>

\* the server's messages after publisher.publish(channel, message)
Received(message) ==
  IF message.delivered
  THEN Append(redis, [channel |-> message.channel, data |-> message.data])
  ELSE redis

\* await publish_progress(...) inside the try block, then `then`
Publish(data, redis_ok) ==
  LET pub == publish_progress(channel, data, redis_ok)
  IN /\ events' = Append(events, pub.message)
     /\ redis' = Received(pub.message)
     /\ error_log' = IF pub.logged THEN Append(error_log, "redis") ELSE error_log
     /\ faults' = faults + (IF redis_ok THEN 0 ELSE 1)

Published(data, redis_ok) == publish_progress(channel, data, redis_ok)

\* await publish_progress({..., status: 'processing'})
PublishProcessing ==
  /\ pc = "publish_processing"
  /\ UNCHANGED <<invoked, value, temp_files, temp_paths, suspended>>
  /\ \E redis_ok \in Outcomes({TRUE}, {FALSE}) :
       LET data ==
             IF loop = "passport"
             THEN ProgressData(order_id, passport_pair.traveller_id,
                               passport_pair.front.traveller_name,
                               passport_pair.front.document_id,
                               "passport", "processing", NoData, UndefinedStr)
             ELSE ProgressData(order_id, ticket_doc.traveller_id,
                               ticket_doc.traveller_name, ticket_doc.document_id,
                               loop, "processing", NoData, UndefinedStr)
       IN IF loop = "passport" /\ passport_pair.front = NoDoc
          THEN \* passport_pair.front.traveller_name of an absent front
               /\ redis_ok
               /\ Throw("TypeError")
               /\ UNCHANGED <<events, redis, error_log, faults>>
          ELSE /\ Publish(data, redis_ok)
               /\ IF Published(data, redis_ok).thrown
                  THEN Throw("redis error")
                  ELSE /\ pc' = "ocr"
                       /\ UNCHANGED <<loop, i, result, mapped_traveller_id, caught>>
  /\ UNCHANGED <<request, response, order_id, documents, passport_docs, flight_docs,
                 hotel_docs, ocr_calls, matcher_calls, posts, backend>>

\* await process_passport_ocr / process_flight_ocr / process_hotel_ocr;
\* ocr_calls records the call, what its external calls met (env) and the
\* result it returned
ExtractOcr ==
  /\ pc = "ocr"
  /\ UNCHANGED <<invoked, value, temp_files, temp_paths, suspended>>
  /\ IF loop = "passport"
     THEN \E env \in Outcomes(PassportEnvs, PassportFailures) :
            IF passport_pair.back = NoDoc
            THEN \* passport_pair.back.file_url of an absent back
                 /\ env \in PassportEnvs
                 /\ Throw("TypeError")
                 /\ UNCHANGED <<ocr_calls, faults>>
            ELSE /\ result' = process_passport_ocr(passport_pair.front.file_url,
                                                   passport_pair.back.file_url, env)
                 /\ ocr_calls' = Append(ocr_calls,
                      [extractor |-> "process_passport_ocr",
                       file_urls |-> <<passport_pair.front.file_url,
                                       passport_pair.back.file_url>>,
                       env |-> env, returned |-> result', at |-> Clock])
                 /\ faults' = faults + (IF env \in PassportFailures THEN 1 ELSE 0)
                 /\ pc' = "publish_result"
                 /\ UNCHANGED <<loop, i, mapped_traveller_id, caught>>
     ELSE \E env \in Outcomes(TicketEnvs(IF loop = "flight" THEN FlightSamples
                                                             ELSE HotelSamples),
                               TicketFailures) :
            /\ result' = IF loop = "flight"
                         THEN process_flight_ocr(ticket_doc.file_url, env)
                         ELSE process_hotel_ocr(ticket_doc.file_url, env)
            /\ ocr_calls' = Append(ocr_calls,
                 [extractor |-> IF loop = "flight" THEN "process_flight_ocr"
                                                   ELSE "process_hotel_ocr",
                  file_urls |-> <<ticket_doc.file_url>>,
                  env |-> env, returned |-> result', at |-> Clock])
            /\ faults' = faults + (IF env \in TicketFailures THEN 1 ELSE 0)
            /\ pc' = "publish_result"
            /\ UNCHANGED <<loop, i, mapped_traveller_id, caught>>
  /\ UNCHANGED <<request, response, order_id, documents, passport_docs, flight_docs,
                 hotel_docs, events, matcher_calls, posts, error_log, redis,
                 backend>>

\* the name handed to the matcher: passenger_name or guest_name
ExtractedName(ticket_type, data) ==
  IF ticket_type = "flight" THEN data.passenger_name ELSE data.guest_name

\* variant: the passport loop runs the matcher on the extracted full_name
PublishResult_matches_passports ==
  /\ pc = "publish_result"
  /\ UNCHANGED <<invoked, value, temp_files, temp_paths, suspended>>
  /\ \E redis_ok \in Outcomes({TRUE}, {FALSE}) :
       IF loop = "passport"
       THEN LET matched == map_ticket_to_passenger(result.data.full_name, all_travellers)
                data ==
                  ProgressData(order_id,
                               IF matched.value # Null THEN matched.value
                               ELSE passport_pair.traveller_id,
                               passport_pair.front.traveller_name,
                               passport_pair.front.document_id, "passport",
                               IF result.status = "success" THEN "mapped" ELSE "failed",
                               result.data, result.error)
            IN /\ Publish(data, redis_ok)
               /\ matcher_calls' = Append(matcher_calls,
                    [ticket_type |-> "passport",
                     document_id |-> passport_pair.front.document_id,
                     extracted_name |-> result.data.full_name,
                     travellers |-> all_travellers, left |-> matched.travellers,
                     returned |-> matched.value])
               /\ IF Published(data, redis_ok).thrown
                  THEN Throw("redis error")
                  ELSE /\ pc' = "update_main_backend"
                       /\ UNCHANGED <<loop, i, result, mapped_traveller_id, caught>>
       ELSE IF result.status = "success" /\ result.data # NoData
       THEN \E matched \in {map_ticket_to_passenger(
                                ExtractedName(loop, result.data), all_travellers)} :
              LET mapped == IF matched.value # Null THEN matched.value
                            ELSE ticket_doc.traveller_id
                  data ==
                    ProgressData(order_id, mapped,
                                 NameOfTraveller(all_travellers, mapped,
                                                 ticket_doc.traveller_name),
                                 ticket_doc.document_id, loop, "mapped",
                                 result.data, UndefinedStr)
              IN /\ matcher_calls' = Append(matcher_calls,
                      [ticket_type |-> loop, document_id |-> ticket_doc.document_id,
                       extracted_name |-> ExtractedName(loop, result.data),
                       travellers |-> all_travellers, left |-> matched.travellers,
                       returned |-> matched.value])
                 /\ IF matched.thrown
                    THEN /\ redis_ok
                         /\ Throw("TypeError")
                         /\ UNCHANGED <<events, redis, error_log, faults>>
                    ELSE /\ Publish(data, redis_ok)
                         /\ IF Published(data, redis_ok).thrown
                            THEN Throw("redis error")
                            ELSE /\ pc' = "update_main_backend"
                                 /\ mapped_traveller_id' = mapped
                                 /\ UNCHANGED <<loop, i, result, caught>>
       ELSE LET data ==
                  ProgressData(order_id, ticket_doc.traveller_id,
                               ticket_doc.traveller_name, ticket_doc.document_id,
                               loop, "failed", NoData, result.error)
            IN /\ Publish(data, redis_ok)
               /\ UNCHANGED matcher_calls
               /\ IF Published(data, redis_ok).thrown
                  THEN Throw("redis error")
                  ELSE Advance
  /\ UNCHANGED <<request, response, order_id, documents, passport_docs, flight_docs,
                 hotel_docs, ocr_calls, posts, backend>>

\* the statements between the extractor's return and the webhook call:
\* the terminal publish_progress, for tickets after the matcher
PublishResult ==
  /\ pc = "publish_result"
  /\ UNCHANGED <<invoked, value, temp_files, temp_paths, suspended>>
  /\ \E redis_ok \in Outcomes({TRUE}, {FALSE}) :
       IF loop = "passport"
       THEN LET data ==
                  ProgressData(order_id, passport_pair.traveller_id,
                               passport_pair.front.traveller_name,
                               passport_pair.front.document_id, "passport",
                               IF result.status = "success" THEN "mapped" ELSE "failed",
                               result.data, result.error)
            IN /\ Publish(data, redis_ok)
               /\ UNCHANGED matcher_calls
               /\ IF Published(data, redis_ok).thrown
                  THEN Throw("redis error")
                  ELSE /\ pc' = "update_main_backend"
                       /\ UNCHANGED <<loop, i, result, mapped_traveller_id, caught>>
       ELSE IF result.status = "success" /\ result.data # NoData
       THEN \E matched \in {map_ticket_to_passenger(
                                ExtractedName(loop, result.data), all_travellers)} :
              LET mapped == IF matched.value # Null THEN matched.value
                            ELSE ticket_doc.traveller_id
                  data ==
                    ProgressData(order_id, mapped,
                                 NameOfTraveller(all_travellers, mapped,
                                                 ticket_doc.traveller_name),
                                 ticket_doc.document_id, loop, "mapped",
                                 result.data, UndefinedStr)
              IN /\ matcher_calls' = Append(matcher_calls,
                      [ticket_type |-> loop, document_id |-> ticket_doc.document_id,
                       extracted_name |-> ExtractedName(loop, result.data),
                       travellers |-> all_travellers, left |-> matched.travellers,
                       returned |-> matched.value])
                 /\ IF matched.thrown
                    THEN /\ redis_ok
                         /\ Throw("TypeError")
                         /\ UNCHANGED <<events, redis, error_log, faults>>
                    ELSE /\ Publish(data, redis_ok)
                         /\ IF Published(data, redis_ok).thrown
                            THEN Throw("redis error")
                            ELSE /\ pc' = "update_main_backend"
                                 /\ mapped_traveller_id' = mapped
                                 /\ UNCHANGED <<loop, i, result, caught>>
       ELSE LET data ==
                  ProgressData(order_id, ticket_doc.traveller_id,
                               ticket_doc.traveller_name, ticket_doc.document_id,
                               loop, "failed", NoData, result.error)
            IN /\ Publish(data, redis_ok)
               /\ UNCHANGED matcher_calls
               /\ IF Published(data, redis_ok).thrown
                  THEN Throw("redis error")
                  ELSE Advance
  /\ UNCHANGED <<request, response, order_id, documents, passport_docs, flight_docs,
                 hotel_docs, ocr_calls, posts, backend>>

(***************************************************************************)
(* The result webhook.                                                     *)
(***************************************************************************)
\* `${env.main_backend.url}/order/${order_id}/ocr-results`
OcrResultsUrl(oid) == <<"http://localhost:3000", "order", oid, "ocr-results">>

\* variant: no try/catch around the fetch, a rejected fetch is thrown on
update_main_backend_with_passport_unguarded(oid, traveller_id, passport_front_doc_id, passport_back_doc_id, passport_result, resp) ==
  [thrown |-> resp = "rejected", logged |-> resp # "ok",
   post |-> [url |-> OcrResultsUrl(oid),
             body |-> [traveller_id |-> traveller_id,
                       ticket_type |-> "passport",
                       passport_front_doc_id |-> passport_front_doc_id,
                       passport_back_doc_id |-> passport_back_doc_id,
                       document_id |-> UndefinedStr,
                       ocr_status |-> IF passport_result.status = "success"
                                      THEN "COMPLETED" ELSE "FAILED",
                       ocr_extracted_data |-> passport_result,
                       mapped_to_traveller_id |-> UndefinedStr],
             response |-> resp, at |-> Clock]]

update_main_backend_with_passport(oid, traveller_id, passport_front_doc_id, passport_back_doc_id, passport_result, resp) ==
  [thrown |-> FALSE, logged |-> resp # "ok",
   post |-> [url |-> OcrResultsUrl(oid),
             body |-> [traveller_id |-> traveller_id,
                       ticket_type |-> "passport",
                       passport_front_doc_id |-> passport_front_doc_id,
                       passport_back_doc_id |-> passport_back_doc_id,
                       document_id |-> UndefinedStr,
                       ocr_status |-> IF passport_result.status = "success"
                                      THEN "COMPLETED" ELSE "FAILED",
                       ocr_extracted_data |-> passport_result,
                       mapped_to_traveller_id |-> UndefinedStr],
             response |-> resp, at |-> Clock]]

\* variant: no try/catch around the fetch, a rejected fetch is thrown on
update_main_backend_with_ticket_unguarded(oid, traveller_id, document_id, ticket_type, ticket_result, resp) ==
  [thrown |-> resp = "rejected", logged |-> resp # "ok",
   post |-> [url |-> OcrResultsUrl(oid),
             body |-> [traveller_id |-> traveller_id,
                       ticket_type |-> ticket_type,
                       passport_front_doc_id |-> UndefinedStr,
                       passport_back_doc_id |-> UndefinedStr,
                       document_id |-> document_id,
                       ocr_status |-> IF ticket_result.status = "success"
                                      THEN "COMPLETED" ELSE "FAILED",
                       ocr_extracted_data |-> ticket_result,
                       mapped_to_traveller_id |-> traveller_id],
             response |-> resp, at |-> Clock]]

\* variant: the body lacks mapped_to_traveller_id, as the passport body does
update_main_backend_with_ticket_without_mapping(oid, traveller_id, document_id, ticket_type, ticket_result, resp) ==
  [thrown |-> FALSE, logged |-> resp # "ok",
   post |-> [url |-> OcrResultsUrl(oid),
             body |-> [traveller_id |-> traveller_id,
                       ticket_type |-> ticket_type,
                       passport_front_doc_id |-> UndefinedStr,
                       passport_back_doc_id |-> UndefinedStr,
                       document_id |-> document_id,
                       ocr_status |-> IF ticket_result.status = "success"
                                      THEN "COMPLETED" ELSE "FAILED",
                       ocr_extracted_data |-> ticket_result,
                       mapped_to_traveller_id |-> UndefinedStr],
             response |-> resp, at |-> Clock]]

update_main_backend_with_ticket(oid, traveller_id, document_id, ticket_type, ticket_result, resp) ==
  [thrown |-> FALSE, logged |-> resp # "ok",
   post |-> [url |-> OcrResultsUrl(oid),
             body |-> [traveller_id |-> traveller_id,
                       ticket_type |-> ticket_type,
                       passport_front_doc_id |-> UndefinedStr,
                       passport_back_doc_id |-> UndefinedStr,
                       document_id |-> document_id,
                       ocr_status |-> IF ticket_result.status = "success"
                                      THEN "COMPLETED" ELSE "FAILED",
                       ocr_extracted_data |-> ticket_result,
                       mapped_to_traveller_id |-> traveller_id],
             response |-> resp, at |-> Clock]]

\* await update_main_backend_with_passport / update_main_backend_with_ticket
UpdateMainBackend ==
  /\ pc = "update_main_backend"
  /\ UNCHANGED <<invoked, value, temp_files, temp_paths, suspended>>
  /\ \E resp \in Outcomes({"ok"}, {"not_ok", "rejected"}) :
       LET sent ==
             IF loop = "passport"
             THEN update_main_backend_with_passport(
                    order_id, passport_pair.traveller_id,
                    passport_pair.front.document_id,
                    passport_pair.back.document_id, result, resp)
             ELSE update_main_backend_with_ticket(
                    order_id, mapped_traveller_id, ticket_doc.document_id,
                    loop, result, resp)
       IN /\ posts' = Append(posts, sent.post)
          /\ backend' = IF resp = "rejected" THEN backend
                        ELSE Append(backend, [url |-> sent.post.url,
                                              body |-> sent.post.body])
          /\ error_log' = IF sent.logged THEN Append(error_log, "backend")
                          ELSE error_log
          /\ faults' = faults + (IF resp = "ok" THEN 0 ELSE 1)
          /\ IF sent.thrown THEN Throw("fetch failed") ELSE Advance
  /\ UNCHANGED <<request, response, order_id, documents, passport_docs, flight_docs,
                 hotel_docs, events, ocr_calls, matcher_calls, redis>>

\* the unit's catch block: log, publish 'failed'; an error thrown here leaves
\* the loops through the outer catch, which rethrows; a passport's name or
\* id that is missing is published as '': x || ''
CatchUnit ==
  /\ pc = "catch"
  /\ UNCHANGED <<invoked, value, temp_files, temp_paths, suspended>>
  /\ \E redis_ok \in Outcomes({TRUE}, {FALSE}) :
       LET data ==
             IF loop = "passport"
             THEN ProgressData(order_id, passport_pair.traveller_id,
                               IF Truthy(passport_pair.front.traveller_name)
                               THEN passport_pair.front.traveller_name ELSE <<>>,
                               IF passport_pair.front.document_id = UndefinedStr
                               THEN "" ELSE passport_pair.front.document_id,
                               "passport", "failed", NoData, caught)
             ELSE ProgressData(order_id, ticket_doc.traveller_id,
                               ticket_doc.traveller_name, ticket_doc.document_id,
                               loop, "failed", NoData, caught)
           pub == publish_progress(channel, data, redis_ok)
       IN /\ events' = Append(events, pub.message)
          /\ redis' = Received(pub.message)
          /\ faults' = faults + (IF redis_ok THEN 0 ELSE 1)
          /\ IF pub.thrown
             THEN /\ pc' = "aborted"
                  /\ error_log' = error_log \o <<"unit", "batch", "order">>
                  /\ UNCHANGED <<loop, i, result, mapped_traveller_id, caught>>
             ELSE /\ error_log' = error_log \o
                       (IF pub.logged THEN <<"unit", "redis">> ELSE <<"unit">>)
                  /\ Advance
  /\ UNCHANGED <<request, response, order_id, documents, passport_docs, flight_docs,
                 hotel_docs, ocr_calls, matcher_calls, posts, backend>>

(***************************************************************************)
(* The system.                                                             *)
(***************************************************************************)
\* a client posts a request body
Request ==
  /\ pc = "idle"
  /\ UNCHANGED <<invoked, value, temp_files, temp_paths, suspended>>
  /\ \E body \in RequestBodies : PostDocuments(body)

Next ==
  \/ Request
  \/ StartProcessing
  \/ PublishProcessing
  \/ ExtractOcr
  \/ PublishResult
  \/ UpdateMainBackend
  \/ CatchUnit

Spec == Init /\ [][Next]_vars

\* every external call that was started eventually returns or fails
FairSpec ==
  /\ Spec
  /\ WF_vars(StartProcessing) /\ WF_vars(PublishProcessing) /\ WF_vars(ExtractOcr)
  /\ WF_vars(PublishResult) /\ WF_vars(UpdateMainBackend) /\ WF_vars(CatchUnit)

(***************************************************************************)
(* mapping.service.ts called on its own: fuzzy_match_name on two names,    *)
(* map_ticket_to_passenger on an extracted name and a traveller list.      *)
(***************************************************************************)
process_vars ==
  <<pc, request, response, order_id, documents, passport_docs, flight_docs, hotel_docs,
    loop, i, result, mapped_traveller_id, caught, events, ocr_calls,
    matcher_calls, posts, error_log, faults, redis, backend, temp_files,
    temp_paths, suspended>>

\* the strings of at most n characters
Strings(chars, n) == UNION {[1..len -> chars] : len \in 0..n}

\* names longer than MaxNameLen: three words, repeated and outer whitespace
LongNames ==
  {<<"b", " ", "a", " ", "a">>, <<"a", " ", "b", " ", "c">>, <<"a", " ", "a", " ", "b">>,
   <<" ", "A", "\t", "b">>, <<"a", " ", " ", "b">>, <<"a", " ", "b", " ">>}

CallFuzzyMatchName ==
  /\ invoked = NoCall
  /\ \E name1, name2 \in Strings({"a", "b", "A", " ", "\t"}, MaxNameLen) \cup LongNames :
       /\ invoked' = [fn |-> "fuzzy_match_name", args |-> <<name1, name2>>]
       /\ value' = fuzzy_match_name(name1, name2)
  /\ UNCHANGED process_vars

CallMapTicketToPassenger ==
  /\ invoked = NoCall
  \* extracted_name: undefined, '', a blank, or a name
  /\ \E extracted_name \in {Undefined, <<>>, <<" ">>, <<"a">>, <<"a", " ", "b">>},
        travellers \in
          UNION {[1..len ->
                    [traveller_id : TravellerIds,
                     traveller_name :
                       {<<"a", " ", "b">>, <<"A", "\t", "b">>, <<"b", " ", "a">>, <<"a">>,
                        <<"a", " ", "c">>, <<"c">>, <<>>}]] : len \in 0..MaxTravellers} :
       /\ ~map_ticket_to_passenger(extracted_name, travellers).thrown
       /\ invoked' = [fn |-> "map_ticket_to_passenger",
                      args |-> <<extracted_name, travellers>>]
       /\ value' = map_ticket_to_passenger(extracted_name, travellers).value
  /\ UNCHANGED process_vars

MatcherNext == CallFuzzyMatchName \/ CallMapTicketToPassenger

MatcherSpec == Init /\ [][MatcherNext]_vars

(***************************************************************************)
(* flight.service.ts and hotel.service.ts called on their own: the         *)
(* validations and the extractions on a text, process_flight_ocr and       *)
(* process_hotel_ocr on a download and a recognition.                      *)
(***************************************************************************)
CallValidateFlightTicket ==
  /\ invoked = NoCall
  /\ \E text \in FlightTexts :
       /\ invoked' = [fn |-> "validate_flight_ticket", args |-> <<text>>]
       /\ value' = validate_flight_ticket(text)
  /\ UNCHANGED process_vars

CallValidateHotelBooking ==
  /\ invoked = NoCall
  /\ \E text \in HotelTexts :
       /\ invoked' = [fn |-> "validate_hotel_booking", args |-> <<text>>]
       /\ value' = validate_hotel_booking(text)
  /\ UNCHANGED process_vars

CallExtractFlightData ==
  /\ invoked = NoCall
  /\ \E text \in FlightTexts :
       /\ invoked' = [fn |-> "extract_flight_data", args |-> <<text>>]
       /\ value' = extract_flight_data(text)
  /\ UNCHANGED process_vars

CallExtractHotelData ==
  /\ invoked = NoCall
  /\ \E text \in HotelTexts :
       /\ invoked' = [fn |-> "extract_hotel_data", args |-> <<text>>]
       /\ value' = extract_hotel_data(text)
  /\ UNCHANGED process_vars

CallProcessFlightOcr ==
  /\ invoked = NoCall
  /\ \E env \in TicketEnvs(FlightTexts) \cup TicketFailures :
       /\ invoked' = [fn |-> "process_flight_ocr", args |-> <<FileUrls[1], env>>]
       /\ value' = process_flight_ocr(FileUrls[1], env)
  /\ UNCHANGED process_vars

CallProcessHotelOcr ==
  /\ invoked = NoCall
  /\ \E env \in TicketEnvs(HotelTexts) \cup TicketFailures :
       /\ invoked' = [fn |-> "process_hotel_ocr", args |-> <<FileUrls[1], env>>]
       /\ value' = process_hotel_ocr(FileUrls[1], env)
  /\ UNCHANGED process_vars

\* the bodies of a 2xx response of the verification API: for each fixed
\* field, some of its members and of one further member, each empty or not
ApiBodies ==
  UNION { UNION { [keys -> {<<>>, <<"a">>, <<"b">>}] :
                    keys \in SUBSET (Range(Aliases[field]) \cup {"mrz"}) } :
            field \in DOMAIN Aliases }

\* process_passport_ocr called on its own, with every outcome of the two
\* downloads, of the API call and of response.json()
CallProcessPassportOcr ==
  /\ invoked = NoCall
  /\ \E env \in [front : {"ok", "not_ok", "rejected"},
                  back : {"ok", "not_ok", "rejected"},
                  api : {"ok", "not_ok", "rejected"},
                  body : {[full_name |-> <<"a">>], [malformed |-> TRUE],
                          [null |-> TRUE]}]
                \cup [front : {"ok"}, back : {"ok"}, api : {"ok"}, body : ApiBodies] :
       /\ invoked' = [fn |-> "process_passport_ocr",
                      args |-> <<FileUrls[1], FileUrls[2], env>>]
       /\ value' = process_passport_ocr(FileUrls[1], FileUrls[2], env)
  /\ UNCHANGED process_vars

TicketNext ==
  \/ CallValidateFlightTicket
  \/ CallValidateHotelBooking
  \/ CallExtractFlightData
  \/ CallExtractHotelData
  \/ CallProcessFlightOcr
  \/ CallProcessHotelOcr
  \/ CallProcessPassportOcr

TicketSpec == Init /\ [][TicketNext]_vars

(***************************************************************************)
(* Two invocations of process_documents_async, for two accepted requests   *)
(* with the order_ids o1 and o2.  Node runs one invocation until it        *)
(* awaits: the variables of the process hold the locals and the calls of   *)
(* the invocation that runs, suspended those of the one that waits; redis, *)
(* backend and temp_files are shared by both, and faults counts the failed *)
(* external calls of both.                                                 *)
(***************************************************************************)
\* the invocation that runs
Invocation ==
  [pc |-> pc, request |-> request, response |-> response, order_id |-> order_id,
   documents |-> documents, passport_docs |-> passport_docs,
   flight_docs |-> flight_docs, hotel_docs |-> hotel_docs, loop |-> loop, i |-> i,
   result |-> result, mapped_traveller_id |-> mapped_traveller_id,
   caught |-> caught, events |-> events, ocr_calls |-> ocr_calls,
   matcher_calls |-> matcher_calls, posts |-> posts, error_log |-> error_log,
   temp_paths |-> temp_paths]

\* the invocation that waits goes on, the one that ran waits at its await
Switch ==
  /\ suspended # NoInvocation
  /\ pc' = suspended.pc
  /\ request' = suspended.request
  /\ response' = suspended.response
  /\ order_id' = suspended.order_id
  /\ documents' = suspended.documents
  /\ passport_docs' = suspended.passport_docs
  /\ flight_docs' = suspended.flight_docs
  /\ hotel_docs' = suspended.hotel_docs
  /\ loop' = suspended.loop
  /\ i' = suspended.i
  /\ result' = suspended.result
  /\ mapped_traveller_id' = suspended.mapped_traveller_id
  /\ caught' = suspended.caught
  /\ events' = suspended.events
  /\ ocr_calls' = suspended.ocr_calls
  /\ matcher_calls' = suspended.matcher_calls
  /\ posts' = suspended.posts
  /\ error_log' = suspended.error_log
  /\ temp_paths' = suspended.temp_paths
  /\ suspended' = Invocation
  /\ UNCHANGED <<invoked, value, redis, backend, temp_files, faults>>

\* the batches of the two requests: a passport, a flight ticket, a hotel
\* booking of a traveller without a name; both requests may name the same
\* documents
PairBatches ==
  LET doc(n, tid, tname, dtype) ==
        [traveller_id |-> tid, traveller_name |-> tname,
         document_id |-> DocumentIds[n], file_url |-> FileUrls[n],
         document_type |-> dtype]
  IN {<<doc(1, "t1", <<"a", "b">>, "passport_front"),
        doc(2, "t1", <<"a", "b">>, "passport_back")>>,
      <<doc(1, "t1", <<"a", "b">>, "flight")>>,
      <<doc(1, "t2", Undefined, "hotel")>>}

\* process_documents_async(oid, docs) waits in setImmediate: the state
\* PostDocuments leaves
Scheduled(oid, docs) ==
  [pc |-> "scheduled",
   request |-> [order_id |-> oid, documents |-> [kind |-> "array", items |-> docs]],
   response |-> [code |-> 202, status |-> "accepted", order_id |-> oid],
   order_id |-> oid, documents |-> docs, passport_docs |-> <<>>,
   flight_docs |-> <<>>, hotel_docs |-> <<>>, loop |-> "none", i |-> 0,
   result |-> NoResult, mapped_traveller_id |-> UndefinedStr,
   caught |-> UndefinedStr, events |-> <<>>, ocr_calls |-> <<>>,
   matcher_calls |-> <<>>, posts |-> <<>>, error_log |-> <<>>,
   temp_paths |-> {}]

PairInit ==
  \E first, second \in PairBatches :
    LET started == Scheduled("o1", first)
    IN /\ pc = started.pc
       /\ request = started.request
       /\ response = started.response
       /\ order_id = started.order_id
       /\ documents = started.documents
       /\ passport_docs = <<>>
       /\ flight_docs = <<>>
       /\ hotel_docs = <<>>
       /\ loop = "none"
       /\ i = 0
       /\ result = NoResult
       /\ mapped_traveller_id = UndefinedStr
       /\ caught = UndefinedStr
       /\ events = <<>>
       /\ ocr_calls = <<>>
       /\ matcher_calls = <<>>
       /\ posts = <<>>
       /\ error_log = <<>>
       /\ faults = 0
       /\ invoked = NoCall
       /\ value = Undefined
       /\ redis = <<>>
       /\ backend = <<>>
       /\ temp_files = {}
       /\ temp_paths = {}
       /\ suspended = Scheduled("o2", second)

\* front_temp_path and back_temp_path, named by Date.now()
TempPaths(now) == {<<"passport_front", now>>, <<"passport_back", now>>}

\* variant: fs.unlinkSync without existsSync and outside the inner try: a
\* missing file makes the finally block throw
unlink_temp_files_unchecked(files, paths) ==
  [thrown |-> ~(paths \subseteq files), files |-> files \ paths]

\* finally: if (fs.existsSync(path)) fs.unlinkSync(path), for both paths,
\* inside try/catch
unlink_temp_files(files, paths) ==
  [thrown |-> FALSE, files |-> files \ paths]

\* process_passport_ocr up to its third await: the two downloads, and the
\* temporary files written before the verification API is called; two
\* calls may read the same millisecond from Date.now()
DownloadPassport ==
  /\ pc = "ocr"
  /\ loop = "passport"
  /\ \E env \in {e \in Outcomes(PassportEnvs, PassportFailures) : e.api = "ok"},
        now \in {1, 2} :
       IF env.front = "ok" /\ env.back = "ok"
       THEN /\ env \in PassportEnvs
            /\ temp_files' = temp_files \cup TempPaths(now)
            /\ temp_paths' = TempPaths(now)
            /\ pc' = "ocr_api"
            /\ UNCHANGED <<result, ocr_calls, faults>>
       ELSE /\ now = 1
            /\ result' = process_passport_ocr(passport_pair.front.file_url,
                                              passport_pair.back.file_url, env)
            /\ ocr_calls' = Append(ocr_calls,
                 [extractor |-> "process_passport_ocr",
                  file_urls |-> <<passport_pair.front.file_url,
                                  passport_pair.back.file_url>>,
                  env |-> env, returned |-> result', at |-> Clock])
            /\ faults' = faults + 1
            /\ pc' = "publish_result"
            /\ UNCHANGED <<temp_files, temp_paths>>
  /\ UNCHANGED <<request, response, order_id, documents, passport_docs, flight_docs,
                 hotel_docs, loop, i, mapped_traveller_id, caught, events,
                 matcher_calls, posts, error_log, invoked, value, redis, backend,
                 suspended>>

\* the rest of process_passport_ocr: the answer of the verification API,
\* the finally block, the return
VerifyPassport ==
  /\ pc = "ocr_api"
  /\ \E env \in {e \in Outcomes(PassportEnvs, PassportFailures) :
                   e.front = "ok" /\ e.back = "ok"} :
       LET swept == unlink_temp_files(temp_files, temp_paths)
       IN /\ result' =
               IF swept.thrown
               THEN [status |-> "error", data |-> NoData, error |-> "ENOENT"]
               ELSE process_passport_ocr(passport_pair.front.file_url,
                                         passport_pair.back.file_url, env)
          /\ ocr_calls' = Append(ocr_calls,
               [extractor |-> "process_passport_ocr",
                file_urls |-> <<passport_pair.front.file_url,
                                passport_pair.back.file_url>>,
                env |-> env, returned |-> result', at |-> Clock])
          /\ temp_files' = swept.files
          /\ temp_paths' = {}
          /\ faults' = faults + (IF env \in PassportFailures THEN 1 ELSE 0)
          /\ pc' = "publish_result"
  /\ UNCHANGED <<request, response, order_id, documents, passport_docs, flight_docs,
                 hotel_docs, loop, i, mapped_traveller_id, caught, events,
                 matcher_calls, posts, error_log, invoked, value, redis, backend,
                 suspended>>

\* await process_flight_ocr / process_hotel_ocr
ExtractTicketOcr ==
  /\ loop # "passport"
  /\ ExtractOcr

PairNext ==
  \/ Switch
  \/ StartProcessing
  \/ PublishProcessing
  \/ DownloadPassport
  \/ VerifyPassport
  \/ ExtractTicketOcr
  \/ PublishResult
  \/ UpdateMainBackend
  \/ CatchUnit

PairSpec == PairInit /\ [][PairNext]_vars

(***************************************************************************)
(* Vocabulary of the properties.                                           *)
(***************************************************************************)
Terminal == {"mapped", "failed"}

\* the statuses of the progress events of one document_id, in order
StatusesOf(document_id) ==
  LET ks == {k \in 1..Len(events) : events[k].data.document_id = document_id}
      Nth(n) == CHOOSE k \in ks : Cardinality({m \in ks : m <= k}) = n
  IN [n \in 1..Cardinality(ks) |-> events[Nth(n)].data.status]

EventDocumentIds == {events[k].data.document_id : k \in 1..Len(events)}

DocsOfType(tid, dtype) ==
  {k \in 1..Len(documents) :
     documents[k].traveller_id = tid /\ documents[k].document_type = dtype}

HasBothSides(tid) ==
  DocsOfType(tid, "passport_front") # {} /\ DocsOfType(tid, "passport_back") # {}

LastOf(ks) == CHOOSE k \in ks : \A m \in ks : m <= k

PairedTravellers == {tid \in TravellerIds : HasBothSides(tid)}

TicketDocs == {k \in 1..Len(documents) : documents[k].document_type \in {"flight", "hotel"}}

\* the processing units of the batch, each named by the document_id its
\* progress events carry
UnitDocumentIds ==
  {documents[LastOf(DocsOfType(tid, "passport_front"))].document_id :
     tid \in PairedTravellers}
  \cup {documents[k].document_id : k \in TicketDocs}

UnitCount == Cardinality(PairedTravellers) + Cardinality(TicketDocs)

TerminalEvents == {k \in 1..Len(events) : events[k].data.status \in Terminal}

AllUnitsTerminal ==
  \A d \in UnitDocumentIds :
    StatusesOf(d) \in {<<"processing", "mapped">>, <<"processing", "failed">>}

\* the document a ticket extractor call was made for
DocumentIdOfUrl(file_url) ==
  documents[CHOOSE k \in 1..Len(documents) : documents[k].file_url = file_url].document_id

TicketCalls ==
  {k \in 1..Len(ocr_calls) :
     ocr_calls[k].extractor \in {"process_flight_ocr", "process_hotel_ocr"}}

RejectedCalls ==
  {k \in TicketCalls : ocr_calls[k].returned.status \in {"error", "invalid"}}

(***************************************************************************)
(* C1: with unique document ids, the progress events of any document_id    *)
(* are one 'processing' followed by one terminal event ('mapped' or        *)
(* 'failed'): never two terminal events, never a terminal event without a  *)
(* preceding 'processing', never both 'mapped' and 'failed'; when the      *)
(* batch is done no document is left at 'processing'.                      *)
(***************************************************************************)
C1_EventOrderPerDocument ==
  \A d \in EventDocumentIds :
    /\ StatusesOf(d) \in {<<"processing">>, <<"processing", "mapped">>,
                          <<"processing", "failed">>}
    /\ pc = "completed" => StatusesOf(d) # <<"processing">>

C1_Witness ==
  /\ pc = "completed"
  /\ \E d1, d2 \in EventDocumentIds :
       /\ StatusesOf(d1) = <<"processing", "mapped">>
       /\ StatusesOf(d2) = <<"processing", "failed">>

(***************************************************************************)
(* C2: when process_documents_async finishes, the number of terminal       *)
(* progress events equals the number of processing units of the batch:     *)
(* one per traveller with both passport sides, one per flight document,    *)
(* one per hotel document.                                                 *)
(***************************************************************************)
C2_TerminalEventsEqualUnits ==
  pc = "completed" => Cardinality(TerminalEvents) = UnitCount

C2_Witness ==
  /\ pc = "completed"
  /\ Len(documents) = 2
  /\ UnitCount = 1
  /\ Cardinality(TerminalEvents) = 1
  /\ \E k \in 1..Len(documents) :
       /\ documents[k].document_type \in {"passport_front", "passport_back"}
       /\ ~HasBothSides(documents[k].traveller_id)

(***************************************************************************)
(* C3: passport extraction, passport progress events and the passport      *)
(* webhook happen only for a traveller_id that has both a passport_front   *)
(* and a passport_back document in the batch; a traveller with one side    *)
(* gets no passport event, no webhook post and no error.                   *)
(***************************************************************************)
C3_PassportNeedsBothSides ==
  /\ \A k \in 1..Len(events) :
       events[k].data.document_type = "passport"
         => HasBothSides(events[k].data.traveller_id)
  /\ \A k \in 1..Len(posts) :
       posts[k].body.ticket_type = "passport"
         => HasBothSides(posts[k].body.traveller_id)
  /\ \A k \in 1..Len(ocr_calls) :
       ocr_calls[k].extractor = "process_passport_ocr"
         => \E tid \in PairedTravellers :
              \E f \in DocsOfType(tid, "passport_front"),
                 b \in DocsOfType(tid, "passport_back") :
                ocr_calls[k].file_urls = <<documents[f].file_url, documents[b].file_url>>
  /\ \A k \in 1..Len(documents) :
       /\ documents[k].document_type \in {"passport_front", "passport_back"}
       /\ ~HasBothSides(documents[k].traveller_id)
       => /\ StatusesOf(documents[k].document_id) = <<>>
          /\ \A p \in 1..Len(posts) :
               posts[p].body.traveller_id = documents[k].traveller_id
                 => posts[p].body.ticket_type # "passport"

C3_Witness ==
  /\ pc = "completed"
  /\ events # <<>>
  /\ \E k \in 1..Len(documents) :
       /\ documents[k].document_type = "passport_front"
       /\ ~HasBothSides(documents[k].traveller_id)
       /\ \A e \in 1..Len(events) : events[e].data.document_type # "passport"

CountOf(seq, x) == Cardinality({k \in 1..Len(seq) : seq[k] = x})

TicketTypeOfCall(k) ==
  IF ocr_calls[k].extractor = "process_flight_ocr" THEN "flight" ELSE "hotel"

\* the matcher is handed a non-empty name while some payload of the batch has
\* no traveller_name: name.toLowerCase() raises a TypeError
ThrowingCalls ==
  {k \in TicketCalls :
     /\ ocr_calls[k].returned.status = "success"
     /\ Truthy(ExtractedName(TicketTypeOfCall(k), ocr_calls[k].returned.data))
     /\ \E d \in 1..Len(documents) : documents[d].traveller_name = Undefined}

DocumentIdOfCall(k) == DocumentIdOfUrl(ocr_calls[k].file_urls[1])

\* webhook posts made for the unit whose events carry document_id d
PostsOf(d) ==
  {k \in 1..Len(posts) :
     \/ posts[k].body.document_id = d
     \/ posts[k].body.passport_front_doc_id = d}

(***************************************************************************)
(* C4: a flight or hotel document whose extractor returns 'error' or       *)
(* 'invalid' gets one 'processing' event followed by one 'failed' event,   *)
(* and the units after it are still processed to a terminal state.         *)
(***************************************************************************)
C4_RejectedTicketFailsAndBatchGoesOn ==
  /\ \A k \in RejectedCalls :
       LET st == StatusesOf(DocumentIdOfCall(k))
       IN /\ st \in {<<"processing">>, <<"processing", "failed">>}
          /\ st = <<"processing">> => pc = "publish_result"
  /\ RejectedCalls # {} => pc # "aborted"
  /\ RejectedCalls # {} /\ pc = "completed" => AllUnitsTerminal

C4_Witness ==
  /\ pc = "completed"
  /\ \E k \in RejectedCalls :
       /\ ocr_calls[k].returned.status = "invalid"
       /\ \E e \in 1..Len(events) :
            /\ events[e].at > ocr_calls[k].at
            /\ events[e].data.document_id # DocumentIdOfCall(k)
            /\ events[e].data.status = "mapped"

(***************************************************************************)
(* C5: an exception raised inside one unit's pipeline is caught at the     *)
(* unit's boundary and becomes that unit's 'failed' event; it does not     *)
(* leave process_documents_async and the other units are still processed.  *)
(***************************************************************************)
C5_ExceptionsStayInTheUnit ==
  /\ pc # "aborted"
  /\ \A k \in ThrowingCalls :
       LET st == StatusesOf(DocumentIdOfCall(k))
       IN /\ st \in {<<"processing">>, <<"processing", "failed">>}
          /\ st = <<"processing">> => pc \in {"publish_result", "catch"}
  /\ pc = "catch" => caught # UndefinedStr
  /\ ThrowingCalls # {} /\ pc = "completed" => AllUnitsTerminal

C5_Witness ==
  /\ pc = "completed"
  /\ CountOf(error_log, "unit") = 1
  /\ \E k \in ThrowingCalls :
       /\ StatusesOf(DocumentIdOfCall(k)) = <<"processing", "failed">>
       /\ \E e \in 1..Len(events) :
            /\ events[e].at > ocr_calls[k].at
            /\ events[e].data.document_id # DocumentIdOfCall(k)
            /\ events[e].data.status \in Terminal

(***************************************************************************)
(* C6: when every external call eventually returns or fails, an accepted   *)
(* batch eventually reaches completion with every one of its units in a    *)
(* terminal state, whatever the outcome of the other units.                *)
(***************************************************************************)
C6_AcceptedBatchCompletes ==
  (pc = "scheduled") ~> (pc = "completed" /\ AllUnitsTerminal)

C6_Witness ==
  /\ pc = "completed"
  /\ UnitCount = 2
  /\ AllUnitsTerminal
  /\ faults = 1
  /\ \E d \in UnitDocumentIds : StatusesOf(d) = <<"processing", "failed">>

(***************************************************************************)
(* C7: for every unit of every kind that ends 'failed' (extraction         *)
(* 'invalid' or 'error', or an exception in its pipeline) the result       *)
(* webhook is posted with ocr_status FAILED.                               *)
(***************************************************************************)
C7_FailedUnitsAreReported ==
  pc = "completed" =>
    \A e \in 1..Len(events) :
      events[e].data.status = "failed" =>
        \E p \in PostsOf(events[e].data.document_id) :
          posts[p].body.ocr_status = "FAILED"

(***************************************************************************)
(* C8: for a well-formed request the 202 'accepted' acknowledgement is     *)
(* sent before any progress event is published and before any extraction   *)
(* starts, and it stays the same whatever the units' outcomes.             *)
(***************************************************************************)
C8_AcknowledgedBeforeProcessing ==
  /\ pc \notin {"idle", "rejected"} =>
       response = [code |-> 202, status |-> "accepted", order_id |-> request.order_id]
  /\ events # <<>> \/ ocr_calls # <<>> \/ posts # <<>> => response.code = 202
  /\ pc = "scheduled" => events = <<>> /\ ocr_calls = <<>> /\ posts = <<>>

C8_Witness ==
  /\ pc = "completed"
  /\ response = [code |-> 202, status |-> "accepted", order_id |-> "o1"]
  /\ \E e \in 1..Len(events) : events[e].data.status = "failed"
  /\ posts # <<>>

(***************************************************************************)
(* C9: a request whose order_id is missing or empty, or whose documents is *)
(* missing or not an array, gets 400 VALIDATION_ERROR and never reaches    *)
(* process_documents_async: no event, no extractor call, no webhook post.  *)
(***************************************************************************)
InvalidBody(body) ==
  body.order_id \in {UndefinedStr, ""} \/ body.documents.kind # "array"

C9_InvalidRequestRejected ==
  pc # "idle" /\ InvalidBody(request) =>
    /\ response = [code |-> 400, status |-> "VALIDATION_ERROR",
                   order_id |-> UndefinedStr]
    /\ pc = "rejected"
    /\ order_id = UndefinedStr /\ documents = <<>>
    /\ events = <<>> /\ ocr_calls = <<>> /\ posts = <<>>

C9_Witness ==
  /\ pc = "rejected"
  /\ request.order_id = "o1"
  /\ request.documents.kind = "object"
  /\ response.code = 400

(***************************************************************************)
(* C10: a failed publish is swallowed and logged: it raises nothing into   *)
(* the unit's pipeline, is not retried, and changes neither the terminal   *)
(* status of the unit, nor whether its webhook is posted, nor the          *)
(* processing of the other units.                                          *)
(***************************************************************************)
ExpectedTerminal(k) ==
  IF ocr_calls[k].returned.status = "success" /\ k \notin ThrowingCalls
  THEN "mapped" ELSE "failed"

C10_PublishFailureSwallowed ==
  /\ caught # "redis error"
  /\ CountOf(error_log, "redis")
       = Cardinality({e \in 1..Len(events) : ~events[e].delivered})
  /\ \A d \in EventDocumentIds :
       StatusesOf(d) \in {<<"processing">>, <<"processing", "mapped">>,
                          <<"processing", "failed">>}
  /\ \A k \in 1..Len(ocr_calls) :
       LET d == DocumentIdOfCall(k)
           st == StatusesOf(d)
       IN /\ Len(st) = 2 => st[2] = ExpectedTerminal(k)
          /\ pc = "completed" =>
               /\ Len(st) = 2
               /\ Cardinality(PostsOf(d)) =
                    (IF k \notin TicketCalls \/ ExpectedTerminal(k) = "mapped"
                     THEN 1 ELSE 0)
  /\ pc = "completed" => AllUnitsTerminal

C10_Witness ==
  /\ pc = "completed"
  /\ \E e \in 1..Len(events) :
       /\ ~events[e].delivered
       /\ events[e].data.status = "processing"
       /\ StatusesOf(events[e].data.document_id) = <<"processing", "mapped">>
       /\ PostsOf(events[e].data.document_id) # {}


\* webhook posts that got a non-2xx response or no response at all
FailedPosts == {p \in 1..Len(posts) : posts[p].response # "ok"}

\* the document_id the progress events of the post's unit carry
UnitOfPost(p) ==
  IF posts[p].body.ticket_type = "passport"
  THEN posts[p].body.passport_front_doc_id
  ELSE posts[p].body.document_id

EventsOf(d) == {e \in 1..Len(events) : events[e].data.document_id = d}

(***************************************************************************)
(* C11: a non-2xx response or a transport failure of the result webhook is *)
(* only logged: the post is not retried, no progress event follows it for  *)
(* the unit (no 'failed' after 'mapped'), the terminal status already      *)
(* emitted stays, and the later units are still processed.                 *)
(***************************************************************************)
C11_WebhookFailureOnlyLogged ==
  /\ CountOf(error_log, "backend") = Cardinality(FailedPosts)
  /\ caught # "fetch failed"
  /\ \A p \in FailedPosts :
       LET d == UnitOfPost(p)
           st == StatusesOf(d)
       IN /\ Cardinality(PostsOf(d)) = 1
          /\ st \in {<<"processing", "mapped">>, <<"processing", "failed">>}
          /\ \A e \in EventsOf(d) : events[e].at < posts[p].at
          /\ st[2] = "mapped" <=> posts[p].body.ocr_status = "COMPLETED"
          /\ posts[p].body.ticket_type # "passport" => st[2] = "mapped"
  /\ FailedPosts # {} => pc # "aborted"
  /\ FailedPosts # {} /\ pc = "completed" => AllUnitsTerminal

C11_Witness ==
  /\ pc = "completed"
  /\ \E p \in FailedPosts :
       /\ posts[p].response = "rejected"
       /\ StatusesOf(UnitOfPost(p)) = <<"processing", "mapped">>
       /\ \E e \in 1..Len(events) :
            /\ events[e].at > posts[p].at
            /\ events[e].data.document_id # UnitOfPost(p)
            /\ events[e].data.status = "mapped"

\* extractor calls that returned status 'success'
SuccessfulCalls == {k \in 1..Len(ocr_calls) : ocr_calls[k].returned.status = "success"}

(***************************************************************************)
(* C12: for a unit whose extraction succeeds the observable steps happen   *)
(* in this order: 'processing' is published, the extractor is called, the  *)
(* 'mapped' event carrying the extracted fields is published, the result   *)
(* webhook is posted; no webhook is posted before the unit's terminal      *)
(* progress event.                                                         *)
(***************************************************************************)
C12_StepsOfSuccessfulUnitInOrder ==
  /\ \A k \in SuccessfulCalls :
       LET d == DocumentIdOfCall(k)
       IN /\ \E e \in EventsOf(d) :
               /\ events[e].data.status = "processing"
               /\ events[e].at < ocr_calls[k].at
          /\ \A e \in EventsOf(d) :
               events[e].data.status \in Terminal => events[e].at > ocr_calls[k].at
          /\ \A e \in EventsOf(d) :
               events[e].data.status = "mapped"
                 => events[e].data.extracted_data = ocr_calls[k].returned.data
          /\ \A p \in PostsOf(d) :
               \E e \in EventsOf(d) :
                 /\ events[e].data.status = "mapped"
                 /\ events[e].at < posts[p].at
          /\ pc = "completed" /\ k \notin ThrowingCalls =>
               /\ StatusesOf(d) = <<"processing", "mapped">>
               /\ Cardinality(PostsOf(d)) = 1
  /\ \A p \in 1..Len(posts) :
       \E e \in EventsOf(UnitOfPost(p)) :
         /\ events[e].data.status \in Terminal
         /\ events[e].at < posts[p].at

C12_Witness ==
  /\ pc = "completed"
  /\ \E k \in SuccessfulCalls :
       /\ ocr_calls[k].extractor = "process_flight_ocr"
       /\ ocr_calls[k].returned.data.passenger_name # Undefined
       /\ StatusesOf(DocumentIdOfCall(k)) = <<"processing", "mapped">>
       /\ PostsOf(DocumentIdOfCall(k)) # {}

ScoreEQ(x, y) == x[1] * y[2] = y[1] * x[2]

FuzzyCalled == invoked.fn = "fuzzy_match_name"
MapCalled == invoked.fn = "map_ticket_to_passenger"

(***************************************************************************)
(* C13: map_ticket_to_passenger returns null when the extracted name is    *)
(* absent, the traveller list is empty, or no traveller scores >= 0.6      *)
(* against the extracted name; otherwise it returns the traveller_id with  *)
(* the maximum score, the earliest listed when several share it.           *)
(***************************************************************************)
C13_MapTicketReturnsBestOrNone ==
  MapCalled =>
    LET extracted_name == invoked.args[1]
        travellers == invoked.args[2]
        score(k) == fuzzy_match_name(extracted_name, travellers[k].traveller_name)
        cleared == {k \in 1..Len(travellers) : ScoreGE(score(k), <<6, 10>>)}
    IN IF extracted_name \in {Undefined, <<>>} \/ travellers = <<>> \/ cleared = {}
       THEN value = Null
       ELSE \E k \in cleared :
              /\ value = travellers[k].traveller_id
              /\ \A m \in cleared :
                   /\ ScoreGE(score(k), score(m))
                   /\ ScoreEQ(score(k), score(m)) => k <= m

C13_Witness ==
  /\ MapCalled
  /\ Len(invoked.args[2]) = 3
  /\ LET extracted_name == invoked.args[1]
         travellers == invoked.args[2]
         score(k) == fuzzy_match_name(extracted_name, travellers[k].traveller_name)
     IN /\ score(1) = <<4, 5>>
        /\ score(2) = <<1, 1>>
        /\ score(3) = <<1, 1>>
        /\ travellers[2].traveller_id # travellers[3].traveller_id
        /\ value = travellers[2].traveller_id

\* the whitespace-delimited tokens of a normalized name, none for ''
Tokens(n) == IF n = <<>> THEN <<>> ELSE Split(n)

(***************************************************************************)
(* C14: after lower-casing and whitespace-collapsing both names the score  *)
(* is 0 whenever either name has zero tokens (is empty or whitespace       *)
(* only); otherwise 1.0 on equality, else 0.8 if one normalized name is a  *)
(* substring of the other, else the number of shared tokens divided by     *)
(* the larger token count.                                                 *)
(***************************************************************************)
C14_ScoreFollowsDefinition ==
  FuzzyCalled =>
    LET n1 == normalize(invoked.args[1])
        n2 == normalize(invoked.args[2])
        tokens1 == Tokens(n1)
        tokens2 == Tokens(n2)
        shared == Cardinality({k \in 1..Len(tokens1) :
                                 \E m \in 1..Len(tokens2) : tokens2[m] = tokens1[k]})
        larger == IF Len(tokens1) >= Len(tokens2) THEN Len(tokens1) ELSE Len(tokens2)
    IN IF Len(tokens1) = 0 \/ Len(tokens2) = 0 THEN ScoreEQ(value, <<0, 1>>)
       ELSE IF n1 = n2 THEN ScoreEQ(value, <<1, 1>>)
       ELSE IF Includes(n1, n2) \/ Includes(n2, n1) THEN ScoreEQ(value, <<8, 10>>)
       ELSE ScoreEQ(value, <<shared, larger>>)

\* the words of a name: its maximal runs of non-blank characters, lower-cased
RECURSIVE WordsOf(_)
WordsOf(name) ==
  LET blank(c) == c \in {" ", "\t"}
      lower(c) == IF c = "A" THEN "a" ELSE c
  IN IF name = <<>> THEN <<>>
     ELSE IF blank(Head(name)) THEN WordsOf(Tail(name))
     ELSE LET rest == WordsOf(Tail(name))
          IN IF Len(name) > 1 /\ ~blank(name[2])
             THEN <<<<lower(Head(name))>> \o Head(rest)>> \o Tail(rest)
             ELSE <<<<lower(Head(name))>>>> \o rest

(***************************************************************************)
(* C15: score(a, a) = 1.0 for every non-empty name a, also when the two    *)
(* arguments differ only by case or by leading, trailing or repeated       *)
(* whitespace.                                                             *)
(***************************************************************************)
C15_ScoreOfSameNameIsOne ==
  FuzzyCalled /\ invoked.args[1] # <<>> /\ invoked.args[2] # <<>>
    /\ WordsOf(invoked.args[1]) = WordsOf(invoked.args[2])
    => value = <<1, 1>>

C15_Witness ==
  /\ FuzzyCalled
  /\ invoked.args[1] = <<" ", "A", "\t", "b">>
  /\ invoked.args[2] = <<"a", " ", " ", "b">>
  /\ value = <<1, 1>>

John == <<"J", "o", "h", "n">>
JohnDoe == <<"J", "o", "h", "n", " ", "D", "o", "e">>

\* some pair of names scores differently in the two orders
ScoreIsNotSymmetric ==
  \E a, b \in LongNames \cup Strings({"a", "b", " "}, 3) :
    fuzzy_match_name(a, b) # fuzzy_match_name(b, a)

(***************************************************************************)
(* C16: the score is not symmetric in general: some names a and b have     *)
(* score(a, b) different from score(b, a); when one normalized name        *)
(* contains the other, both orders give 0.8, as for "John" and "John Doe". *)
(***************************************************************************)
C16_ScoreNotSymmetricExceptContainment ==
  /\ ScoreIsNotSymmetric
  /\ fuzzy_match_name(John, JohnDoe) = <<4, 5>>
  /\ fuzzy_match_name(JohnDoe, John) = <<4, 5>>
  /\ FuzzyCalled =>
       LET n1 == normalize(invoked.args[1])
           n2 == normalize(invoked.args[2])
       IN n1 # n2 /\ (Includes(n1, n2) \/ Includes(n2, n1)) =>
            /\ value = <<4, 5>>
            /\ fuzzy_match_name(invoked.args[2], invoked.args[1]) = <<4, 5>>

C16_Witness ==
  /\ FuzzyCalled
  /\ value = <<2, 2>>
  /\ fuzzy_match_name(invoked.args[2], invoked.args[1]) = <<1, 2>>

(***************************************************************************)
(* C17: for every pair of names the score lies in [0, 1]: the shared-token *)
(* count never exceeds the larger token count, also when a name repeats a  *)
(* token.                                                                  *)
(***************************************************************************)
C17_ScoreInUnitInterval ==
  FuzzyCalled => value[2] > 0 /\ 0 <= value[1] /\ value[1] <= value[2]

C17_Witness ==
  /\ FuzzyCalled
  /\ invoked.args = <<<<"b", " ", "a", " ", "a">>, <<"a", " ", "b">>>>
  /\ value = <<3, 3>>

\* the calls of the validations and of the extractors
Called(fn) == invoked.fn = fn

\* the call of process_flight_ocr or process_hotel_ocr whose download and
\* recognition succeeded
Recognized(fn) ==
  /\ Called(fn)
  /\ invoked.args[2].download = "ok"
  /\ invoked.args[2].ocr = "ok"

\* the distinct keywords that occur in the lower-cased text
KeywordHits(keywords, text) ==
  {keyword \in Range(keywords) : Includes(toLowerCase(text), keyword)}

\* the number of places at which the keyword occurs in the lower-cased text
Occurrences(keyword, text) ==
  Cardinality({p \in 1..Len(text) :
                 /\ p + Len(keyword) - 1 <= Len(text)
                 /\ SubSeq(toLowerCase(text), p,
                     p + Len(keyword) - 1) = keyword})

InvalidOutcome(outcome, text, message) ==
  /\ outcome.status = "invalid"
  /\ outcome.raw_text = text
  /\ outcome.error = message
  /\ outcome.data = NoData

(***************************************************************************)
(* C18: flight and hotel validation accept a recognized text exactly when  *)
(* at least 3 distinct keywords of the kind's keyword set (12 for flight,  *)
(* 13 for hotel) occur in the lower-cased text; with fewer than 3 distinct *)
(* hits the extractor returns 'invalid' with the raw text, whatever the    *)
(* length of the text and however often one keyword repeats.               *)
(***************************************************************************)
C18_ValidationNeedsThreeKeywords ==
  /\ Cardinality(Range(flight_keywords)) = 12
  /\ Cardinality(Range(hotel_keywords)) = 13
  /\ Called("validate_flight_ticket") =>
       value = (Cardinality(KeywordHits(flight_keywords,
           invoked.args[1])) >= 3)
  /\ Called("validate_hotel_booking") =>
       value = (Cardinality(KeywordHits(hotel_keywords,
           invoked.args[1])) >= 3)
  /\ Recognized("process_flight_ocr") =>
       IF Cardinality(KeywordHits(flight_keywords, invoked.args[2].text)) < 3
       THEN InvalidOutcome(value, invoked.args[2].text,
                           "Text does not contain flight ticket information")
       ELSE value.status # "invalid"
  /\ Recognized("process_hotel_ocr") =>
       IF Cardinality(KeywordHits(hotel_keywords, invoked.args[2].text)) < 3
       THEN InvalidOutcome(value, invoked.args[2].text,
                           "Text does not contain hotel booking information")
       ELSE value.status # "invalid"

\* a text of two lines in which one keyword occurs six times, and no other
\* keyword, is 'invalid' and comes back as the raw text
C18_Witness ==
  /\ Recognized("process_flight_ocr")
  /\ Len(invoked.args[2].text) > 20
  /\ \E keyword \in Range(flight_keywords) :
       Occurrences(keyword, invoked.args[2].text) >= 6
  /\ Cardinality(KeywordHits(flight_keywords, invoked.args[2].text)) = 1
  /\ value.status = "invalid"
  /\ value.raw_text = invoked.args[2].text

FlightFields ==
  {"pnr", "passenger_name", "flight_number", "airline", "departure_date",
   "arrival_date", "departure_time", "arrival_time", "departure_airport",
   "arrival_airport", "from", "to"}

HotelFields ==
  {"hotel_name", "confirmation_code", "booking_reference", "check_in_date",
   "check_in_time", "check_out_date", "check_out_time", "place", "address",
   "guest_name"}

\* a field mapping: each field a text or absent
IsMapping(data, fields) ==
  /\ DOMAIN data = fields
  /\ \A field \in fields : data[field] = Undefined \/ data[field] # <<>>

SuccessOutcome(outcome, text, fields) ==
  /\ outcome.status = "success"
  /\ outcome.error = UndefinedStr
  /\ outcome.raw_text = text
  /\ IsMapping(outcome.data, fields)

(***************************************************************************)
(* C19: once the recognized text passes the keyword validation, the flight *)
(* and hotel extractors return 'success' with a field mapping, which may   *)
(* be empty, and the raw text; missing fields, the PNR and passenger name  *)
(* or the hotel name and confirmation code among them, never make the      *)
(* outcome 'invalid' or 'error'.                                           *)
(***************************************************************************)
C19_ValidTextAlwaysSucceeds ==
  /\ Recognized("process_flight_ocr")
       /\ Cardinality(KeywordHits(flight_keywords, invoked.args[2].text)) >= 3
       => SuccessOutcome(value, invoked.args[2].text, FlightFields)
  /\ Recognized("process_hotel_ocr")
       /\ Cardinality(KeywordHits(hotel_keywords, invoked.args[2].text)) >= 3
       => SuccessOutcome(value, invoked.args[2].text, HotelFields)

\* a valid flight text in which no field is found, PNR and passenger name
\* included, is a 'success' with an empty mapping
C19_Witness ==
  /\ Recognized("process_flight_ocr")
  /\ value.status = "success"
  /\ \A field \in FlightFields : value.data[field] = Undefined
  /\ value.raw_text = invoked.args[2].text

(***************************************************************************)
(* C20: for the flight text with "PNR: SISCPF", "6E 1402", "21 Apr 2025",  *)
(* "23 Apr 2025", "06:20 hrs", "21:55 hrs", "BOM - Chhatrapati Shivaji     *)
(* Maharaj International Airport" and "AUH - Abu Dhabi International       *)
(* Airport" in this order, extract_flight_data yields pnr "SISCPF",        *)
(* flight_number "6E1402", airline "6E", departure_date "21 Apr 2025",     *)
(* arrival_date "23 Apr 2025", departure_time "06:20 hrs", arrival_time    *)
(* "21:55 hrs", departure_airport "BOM" and arrival_airport "AUH".         *)
(***************************************************************************)
C20_ExampleYieldsReadmeFields ==
  Called("extract_flight_data") /\ invoked.args[1] \in ExampleTexts =>
    /\ value.pnr = <<"S", "I", "S", "C", "P", "F">>
    /\ value.flight_number = <<"6", "E", "1", "4", "0", "2">>
    /\ value.airline = <<"6", "E">>
    /\ value.departure_date = <<"2", "1", " ", "A", "p", "r", " ", "2", "0",
                                "2", "5">>
    /\ value.arrival_date = <<"2", "3", " ", "A", "p", "r", " ", "2", "0",
                              "2", "5">>
    /\ value.departure_time = <<"0", "6", ":", "2", "0", " ", "h", "r", "s">>
    /\ value.arrival_time = <<"2", "1", ":", "5", "5", " ", "h", "r", "s">>
    /\ value.departure_airport = <<"B", "O", "M">>
    /\ value.arrival_airport = <<"A", "U", "H">>

\* the places <<first, after last>> at which a date of either format is
\* written in the text
DatePlaces(text) ==
  { <<m[1], m[Len(m)]>> :
      m \in Range(MatchAll(text, date_patterns[1]))
             \cup Range(MatchAll(text, date_patterns[2])) }

\* the k-th date of the text, read from its beginning
DateInTextOrder(text, k) ==
  IF Cardinality(DatePlaces(text)) < k THEN Undefined
  ELSE LET place == CHOOSE p \in DatePlaces(text) :
                      Cardinality({q \in DatePlaces(text) : q[1] < p[1]}) = k - 1
       IN SubSeq(text, place[1], place[2] - 1)

(***************************************************************************)
(* C21: extract_flight_data collects the dates of both formats, day        *)
(* month-name year and numeric d/m/y, in the order in which they appear in *)
(* the text: departure_date is the date that appears first and             *)
(* arrival_date the date that appears second, also when the two dates are  *)
(* written in different formats.                                           *)
(***************************************************************************)
C21_DatesInTextOrder ==
  Called("extract_flight_data") =>
    /\ value.departure_date = DateInTextOrder(invoked.args[1], 1)
    /\ value.arrival_date = DateInTextOrder(invoked.args[1], 2)

(***************************************************************************)
(* C22: the Identity Matcher is run only for flight and hotel units; every *)
(* progress event and webhook post of a passport unit carries the          *)
(* traveller_id of the passport_front and passport_back documents of the   *)
(* pair, never one chosen by name matching.                                *)
(***************************************************************************)
\* the documents of the batch with the given id and type
DocumentsWith(id, type) ==
  {k \in 1..Len(documents) :
     documents[k].document_id = id /\ documents[k].document_type = type}

C22_MatcherOnlyForTickets ==
  /\ \A k \in 1..Len(matcher_calls) :
       /\ matcher_calls[k].ticket_type \in {"flight", "hotel"}
       /\ DocumentsWith(matcher_calls[k].document_id, matcher_calls[k].ticket_type) # {}
  /\ \A e \in 1..Len(events) :
       events[e].data.document_type = "passport" =>
         \E f \in DocumentsWith(events[e].data.document_id, "passport_front") :
           /\ documents[f].traveller_id = events[e].data.traveller_id
           /\ \E b \in 1..Len(documents) :
                /\ documents[b].document_type = "passport_back"
                /\ documents[b].traveller_id = events[e].data.traveller_id
  /\ \A p \in 1..Len(posts) :
       posts[p].body.ticket_type = "passport" =>
         /\ \E f \in DocumentsWith(posts[p].body.passport_front_doc_id, "passport_front") :
              documents[f].traveller_id = posts[p].body.traveller_id
         /\ \E b \in DocumentsWith(posts[p].body.passport_back_doc_id, "passport_back") :
              documents[b].traveller_id = posts[p].body.traveller_id
         /\ posts[p].body.mapped_to_traveller_id = UndefinedStr

\* a passport unit whose extraction succeeded has published 'mapped' and
\* posted its result under its own traveller_id, although matching the
\* extracted full_name against the batch's travellers gives another one
C22_Witness ==
  /\ \A k \in 1..Len(matcher_calls) : matcher_calls[k].ticket_type # "passport"
  /\ \E e \in 1..Len(events) :
       /\ events[e].data.document_type = "passport"
       /\ events[e].data.status = "mapped"
       /\ map_ticket_to_passenger(events[e].data.extracted_data.full_name,
                                  all_travellers).value
            \notin {Null, events[e].data.traveller_id}
       /\ \E p \in 1..Len(posts) :
            /\ posts[p].body.ticket_type = "passport"
            /\ posts[p].body.passport_front_doc_id = events[e].data.document_id
            /\ posts[p].body.traveller_id = events[e].data.traveller_id

(***************************************************************************)
(* C23: process_passport_ocr never throws: a failed or non-2xx download of *)
(* either side, a transport failure or non-2xx response of the             *)
(* verification API, or a body that cannot be parsed each yield an outcome *)
(* with status 'error' and an error message; status 'success' is returned  *)
(* only after a 2xx API response was parsed.                               *)
(***************************************************************************)
C23_PassportOcrNeverThrows ==
  Called("process_passport_ocr") =>
    LET env == invoked.args[3]
        failed == \/ env.front # "ok" \/ env.back # "ok" \/ env.api # "ok"
                  \/ env.body = [malformed |-> TRUE]
    IN /\ value.status \in {"success", "error"}
       /\ failed => value.status = "error"
       /\ value.status = "error" =>
            /\ value.error \notin {UndefinedStr, ""}
            /\ value.data = NoData
       /\ value.status = "success" =>
            /\ ~failed
            /\ value.data # NoData
            /\ value.error = UndefinedStr

\* the verification API answered with a non-2xx status although both
\* downloads succeeded and its body is JSON: the outcome is an error
C23_Witness ==
  /\ Called("process_passport_ocr")
  /\ invoked.args[3].front = "ok" /\ invoked.args[3].back = "ok"
  /\ invoked.args[3].api = "not_ok"
  /\ invoked.args[3].body = [full_name |-> <<"a">>]
  /\ value.status = "error"
  /\ value.error = "Gridlines API error"

(***************************************************************************)
(* C24: every result-webhook POST carries ocr_status COMPLETED exactly     *)
(* when the outcome it carries has status 'success' and FAILED otherwise,  *)
(* and for flight/hotel units its mapped_to_traveller_id is the traveller  *)
(* resolved for that document by the Identity Matcher.                     *)
(***************************************************************************)
StatusReflectsOutcome(p) ==
  /\ posts[p].body.ocr_status \in {"COMPLETED", "FAILED"}
  /\ posts[p].body.ocr_status = "COMPLETED"
       <=> posts[p].body.ocr_extracted_data.status = "success"

TicketPosts == {p \in 1..Len(posts) : posts[p].body.ticket_type \in {"flight", "hotel"}}

\* the calls of the matcher made for the document of a ticket post
MatcherCallsOf(p) ==
  {k \in 1..Len(matcher_calls) :
     /\ matcher_calls[k].document_id = posts[p].body.document_id
     /\ matcher_calls[k].ticket_type = posts[p].body.ticket_type}

\* the claim as stated: mapped_to_traveller_id is what the matcher returned
C24_MappedToIsMatcherResult ==
  /\ \A p \in 1..Len(posts) : StatusReflectsOutcome(p)
  /\ \A p \in TicketPosts :
       \E k \in MatcherCallsOf(p) :
         posts[p].body.mapped_to_traveller_id = matcher_calls[k].returned

\* amended: mapped_to_traveller_id (and traveller_id) is what the matcher
\* returned for the document, or the document's own traveller_id when the
\* matcher returned null
C24_MappedToIsMatcherResultOrOwn ==
  /\ \A p \in 1..Len(posts) : StatusReflectsOutcome(p)
  /\ \A p \in TicketPosts :
       /\ Cardinality(MatcherCallsOf(p)) = 1
       /\ \A k \in MatcherCallsOf(p) :
            \E d \in DocumentsWith(posts[p].body.document_id, posts[p].body.ticket_type) :
              /\ posts[p].body.mapped_to_traveller_id =
                   IF matcher_calls[k].returned # Null THEN matcher_calls[k].returned
                   ELSE documents[d].traveller_id
              /\ posts[p].body.traveller_id = posts[p].body.mapped_to_traveller_id

\* a ticket uploaded under one traveller whose extracted name the matcher
\* resolved to another traveller of the batch: the post names the latter
C24_Witness ==
  \E p \in TicketPosts :
    \E k \in MatcherCallsOf(p) :
      \E d \in DocumentsWith(posts[p].body.document_id, posts[p].body.ticket_type) :
        /\ matcher_calls[k].returned # Null
        /\ matcher_calls[k].returned # documents[d].traveller_id
        /\ posts[p].body.mapped_to_traveller_id = matcher_calls[k].returned
        /\ posts[p].body.ocr_status = "COMPLETED"

(***************************************************************************)
(* C26: within one batch run each processing unit is acted on at most      *)
(* once: its extractor is invoked exactly once (no retry after an 'error'  *)
(* outcome) and its result webhook is posted at most once.                 *)
(***************************************************************************)
\* the file urls of the processing units of the batch: the complete passport
\* pairs, the flight and the hotel documents
UnitFileUrls ==
  {<<passport_docs[k].front.file_url, passport_docs[k].back.file_url>> :
     k \in {n \in 1..Len(passport_docs) : has_both_sides(passport_docs[n])}}
  \cup {<<documents[k].file_url>> :
          k \in {n \in 1..Len(documents) :
                   documents[n].document_type \in {"flight", "hotel"}}}

CallsOfUnit(file_urls) == {k \in 1..Len(ocr_calls) : ocr_calls[k].file_urls = file_urls}

C26_UnitActedOnOnce ==
  /\ \A k \in 1..Len(ocr_calls) :
       /\ pc \notin {"idle", "rejected", "scheduled"} => ocr_calls[k].file_urls \in UnitFileUrls
       /\ Cardinality(CallsOfUnit(ocr_calls[k].file_urls)) = 1
  /\ \A p, q \in 1..Len(posts) : UnitOfPost(p) = UnitOfPost(q) => p = q
  /\ pc = "completed" =>
       \A file_urls \in UnitFileUrls : Cardinality(CallsOfUnit(file_urls)) = 1

\* a batch of two units has completed; the extractor of the first returned
\* 'error' and was not called again
C26_Witness ==
  /\ pc = "completed"
  /\ Len(ocr_calls) = 2
  /\ ocr_calls[1].returned.status = "error"
  /\ ocr_calls[2].file_urls # ocr_calls[1].file_urls

(***************************************************************************)
(* C27: multiple documents of one batch are processed concurrently: a      *)
(* unit's 'processing' event is emitted before an earlier-started unit of  *)
(* the same batch has reached its terminal state.  Stated of a finished    *)
(* batch in which at least two units were started: two of its units        *)
(* overlapped.                                                             *)
(***************************************************************************)
ProcessingEvents == {e \in 1..Len(events) : events[e].data.status = "processing"}

\* the unit that began at event e had not published its terminal event when
\* the unit of the later event f began
Overlap(e, f) ==
  /\ e < f
  /\ ~\E t \in (e + 1)..(f - 1) :
        /\ events[t].data.status \in Terminal
        /\ events[t].data.document_id = events[e].data.document_id

C27_UnitsOverlap ==
  pc = "completed" /\ Cardinality(ProcessingEvents) >= 2 =>
    \E e, f \in ProcessingEvents : Overlap(e, f)

(***************************************************************************)
(* C28: within one batch, units are processed strictly one after another   *)
(* in the order: all passport units (in first-appearance order of their    *)
(* traveller_id), then all flight documents in input order, then all hotel *)
(* documents in input order; the terminal event (and webhook, if any) of   *)
(* one unit always precedes the 'processing' event of the next unit.       *)
(***************************************************************************)
\* where the documents array first names a passport side of the traveller
FirstPassportOf(tid) ==
  CHOOSE k \in 1..Len(documents) :
    /\ documents[k].traveller_id = tid
    /\ documents[k].document_type \in {"passport_front", "passport_back"}
    /\ \A m \in 1..(k - 1) :
         ~(/\ documents[m].traveller_id = tid
           /\ documents[m].document_type \in {"passport_front", "passport_back"})

\* the place of the unit of a progress event in the order of the claim
PlaceInOrder(e) ==
  LET data == events[e].data
      d == CHOOSE k \in 1..Len(documents) : documents[k].document_id = data.document_id
  IN CASE data.document_type = "passport" ->
            FirstPassportOf(documents[d].traveller_id)
       [] data.document_type = "flight" -> Len(documents) + d
       [] data.document_type = "hotel" -> 2 * Len(documents) + d

C28_UnitsInSequence ==
  /\ \A e, f \in ProcessingEvents :
       e < f =>
         /\ PlaceInOrder(e) < PlaceInOrder(f)
         /\ ~Overlap(e, f)
         /\ \A p \in 1..Len(posts) :
              UnitOfPost(p) = events[e].data.document_id => posts[p].at < events[f].at
  /\ pc = "completed" =>
       UnitDocumentIds = {events[e].data.document_id : e \in ProcessingEvents}

\* the batch of six documents: the passport of t2, whose back side is listed
\* first, then the passport of t1, then the flight ticket, then the hotel
\* booking that heads the list, each reported before the next began
C28_Witness ==
  /\ pc = "completed"
  /\ documents \in SampleBatches
  /\ \E w, x, y, z \in ProcessingEvents :
       /\ w < x /\ x < y /\ y < z
       /\ events[w].data.document_id = "d5" /\ events[w].data.traveller_id = "t2"
       /\ events[x].data.document_id = "d4" /\ events[x].data.traveller_id = "t1"
       /\ events[y].data.document_id = "d3"
       /\ events[z].data.document_id = "d1"
       /\ \E p \in 1..Len(posts) :
            /\ UnitOfPost(p) = "d3"
            /\ posts[p].at < events[z].at

(***************************************************************************)
(* C29: in every flight outcome with status 'success', passenger_name,     *)
(* when present, does not contain any phrase of the false-positive         *)
(* denylist: the denylist filters every candidate of every stage of the    *)
(* name cascade, including the proximity fallback.                         *)
(***************************************************************************)
C29_NameFreeOfFalsePositives ==
  Called("process_flight_ocr") /\ value.status = "success"
                               /\ value.data.passenger_name # Undefined =>
    \A j \in 1..Len(false_positives) :
      ~Includes(value.data.passenger_name, false_positives[j])

(***************************************************************************)
(* C30: in every result of extract_flight_data, flight_number, when        *)
(* present, is a 2-3 letter airline code immediately followed by a 3-4     *)
(* digit number with whitespace removed and letters upper-cased, is never  *)
(* purely numeric and never shorter than 4 characters; airline is present  *)
(* exactly when flight_number is present and equals the leading letters of *)
(* flight_number.                                                          *)
(***************************************************************************)
\* the number of upper-case letters at the head of s
RECURSIVE LeadingLetters(_)
LeadingLetters(s) ==
  IF s = <<>> \/ s[1] \notin Upper THEN 0 ELSE 1 + LeadingLetters(Tail(s))

C30_FlightNumberFormat ==
  Called("extract_flight_data") =>
    IF value.flight_number = Undefined THEN value.airline = Undefined
    ELSE LET flight_number == value.flight_number
             letters == LeadingLetters(flight_number)
         IN /\ letters \in {2, 3}
            /\ Len(flight_number) - letters \in {3, 4}
            /\ \A k \in (letters + 1)..Len(flight_number) : flight_number[k] \in Digits
            /\ Len(flight_number) >= 4
            /\ value.airline = SubSeq(flight_number, 1, letters)

\* "ai 302" in lower case and with a blank is read as AI302 of airline AI
C30_Witness ==
  /\ Called("extract_flight_data")
  /\ Includes(invoked.args[1], <<"a", "i", " ", "3", "0", "2">>)
  /\ value.flight_number = <<"A", "I", "3", "0", "2">>
  /\ value.airline = <<"A", "I">>

(***************************************************************************)
(* C25: when two batches with different order_ids are processed with       *)
(* interleaved steps, the batches do not influence each other: every       *)
(* progress event of a batch is published only on the channel              *)
(* ocr_progress:<its order_id> and carries its own order_id, every webhook *)
(* post goes to its own /order/{order_id}/ocr-results, and the sequence of *)
(* events and outcomes of each batch is the same as if it had run alone.   *)
(***************************************************************************)
\* what the Redis server holds on the channel of an order
OnChannel(oid) ==
  LET on(message) == message.channel = <<"ocr_progress", oid>>
  IN SelectSeq(redis, on)

\* what the main backend received for an order
AtOrder(oid) ==
  LET at(post) == post.url = OcrResultsUrl(oid)
  IN SelectSeq(backend, at)

\* the events of an invocation that reached the server, as the server holds
\* them
Delivered(inv) ==
  LET delivered(event) == event.delivered
      sent == SelectSeq(inv.events, delivered)
  IN [k \in 1..Len(sent) |-> [channel |-> sent[k].channel, data |-> sent[k].data]]

\* the posts of an invocation that reached the backend, as it received them
Posted(inv) ==
  LET answered(post) == post.response # "rejected"
      sent == SelectSeq(inv.posts, answered)
  IN [k \in 1..Len(sent) |-> [url |-> sent[k].url, body |-> sent[k].body]]

\* what the extractor returns for the same files and the same answers of
\* its external calls when nothing else runs
ReturnedAlone(call) ==
  CASE call.extractor = "process_passport_ocr" ->
         process_passport_ocr(call.file_urls[1], call.file_urls[2], call.env)
    [] call.extractor = "process_flight_ocr" ->
         process_flight_ocr(call.file_urls[1], call.env)
    [] call.extractor = "process_hotel_ocr" ->
         process_hotel_ocr(call.file_urls[1], call.env)

C25_BatchesIndependent ==
  /\ \A inv \in {Invocation, suspended} :
       /\ \A k \in 1..Len(inv.events) :
            /\ inv.events[k].channel = <<"ocr_progress", inv.order_id>>
            /\ inv.events[k].data.order_id = inv.order_id
       /\ \A p \in 1..Len(inv.posts) :
            inv.posts[p].url =
              <<"http://localhost:3000", "order", inv.order_id, "ocr-results">>
       /\ OnChannel(inv.order_id) = Delivered(inv)
       /\ AtOrder(inv.order_id) = Posted(inv)
       /\ \A k \in 1..Len(inv.ocr_calls) :
            inv.ocr_calls[k].returned = ReturnedAlone(inv.ocr_calls[k])
  /\ Len(redis) = Len(Delivered(Invocation)) + Len(Delivered(suspended))
  /\ Len(backend) = Len(Posted(Invocation)) + Len(Posted(suspended))
  \* the invocation that runs keeps the order and the counts of a batch
  \* that runs alone
  /\ C26_UnitActedOnOnce
  /\ C28_UnitsInSequence

\* two passports were verified in the same millisecond: the invocation that
\* runs has returned 'success' and removed the temporary files, which the
\* invocation that waits for the verification API had written under the
\* same names; the server holds the events of both orders in turn
C25_Witness ==
  /\ suspended.pc = "ocr_api"
  /\ suspended.temp_paths # {}
  /\ suspended.temp_paths \cap temp_files = {}
  /\ Len(ocr_calls) = 1
  /\ ocr_calls[1].extractor = "process_passport_ocr"
  /\ ocr_calls[1].returned.status = "success"
  /\ Len(redis) >= 2
  /\ redis[1].channel # redis[2].channel

\* what each pattern of a cascade gives on its own, Undefined when the
\* pattern does not match or its match is rejected: the group of the k-th
\* PNR pattern in upper case
PnrOfPattern(text, k) ==
  LET match == Match(text, pnr_patterns[k])
      group == <<3, 2>>[k]
  IN IF match # <<>> /\ Len(Group(text, match, group)) = 6
     THEN toUpperCase(Group(text, match, group)) ELSE Undefined

\* the trimmed group of the k-th name pattern, or of the fallback pattern
\* for k = 4, when it holds no false positive; the fallback rejects nothing
NameOfPattern(text, k) ==
  LET match == Match(text, IF k = 4 THEN fallback_pattern ELSE name_patterns[k])
      group == <<3, 6, 3, 7>>[k]
  IN IF /\ match # <<>>
        /\ Group(text, match, group) # <<>>
        /\ k = 4 \/ \A j \in 1..Len(false_positives) :
                      ~Includes(trim(Group(text, match, group)), false_positives[j])
     THEN trim(Group(text, match, group)) ELSE Undefined

\* the match of the k-th flight pattern without whitespace and in upper
\* case, when it has 4 characters or more and is not a number
FlightNumberOfPattern(text, k) ==
  LET match == Match(text, flight_patterns[k])
      flight_num == IF match = <<>> THEN <<>>
                    ELSE toUpperCase(RemoveSpaces(Matched(text, match)))
  IN IF Len(flight_num) >= 4 /\ \E j \in 1..Len(flight_num) : flight_num[j] \notin Digits
     THEN flight_num ELSE Undefined

\* the trimmed group of the k-th hotel pattern, without a final dot
HotelNameOfPattern(text, k) ==
  LET match == Match(text, hotel_patterns[k])
      group == <<2, 1, 3>>[k]
      name == IF match = <<>> THEN <<>> ELSE trim(Group(text, match, group))
  IN IF match = <<>> \/ Group(text, match, group) = <<>> THEN Undefined
     ELSE IF name # <<>> /\ name[Len(name)] = "." THEN SubSeq(name, 1, Len(name) - 1)
     ELSE name

\* the group of the k-th confirmation pattern in upper case
CodeOfPattern(text, k) ==
  LET match == Match(text, confirmation_patterns[k])
      group == <<5, 5, 5, 2>>[k]
  IN IF match # <<>> /\ Group(text, match, group) # <<>>
     THEN toUpperCase(Group(text, match, group)) ELSE Undefined

\* the trimmed group of the k-th place pattern, when it names neither a
\* villa nor a hotel
PlaceOfPattern(text, k) ==
  LET match == Match(text, place_patterns[k])
      group == <<3, 1, 1>>[k]
      place == IF match = <<>> THEN <<>> ELSE trim(Group(text, match, group))
  IN IF /\ match # <<>>
        /\ Group(text, match, group) # <<>>
        /\ ~Includes(toLowerCase(place), <<"v", "i", "l", "l", "a">>)
        /\ ~Includes(toLowerCase(place), <<"h", "o", "t", "e", "l">>)
     THEN place ELSE Undefined

\* the value is the one of the first pattern that gives one, and absent
\* when no pattern gives one
FirstPatternWins(field_value, found) ==
  /\ \A k \in 1..Len(found) :
       (found[k] # Undefined /\ \A j \in 1..(k - 1) : found[j] = Undefined)
         => field_value = found[k]
  /\ (\A k \in 1..Len(found) : found[k] = Undefined) => field_value = Undefined

\* a token of 6 letters or digits stands at p, between two word boundaries
TokenAt(text, p) ==
  /\ p + 5 <= Len(text)
  /\ \A q \in p..(p + 5) : text[q] \in Letters \cup Digits
  /\ p = 1 \/ text[p - 1] \notin Letters \cup Digits \cup {"_"}
  /\ p + 6 > Len(text) \/ text[p + 6] \notin Letters \cup Digits \cup {"_"}

\* the token at p is followed, after any whitespace, by hrs, hours, am or pm
FollowedByTime(text, p) ==
  \E q \in (p + 6)..Len(text) :
    /\ \A j \in (p + 6)..(q - 1) : text[j] \in Spaces
    /\ \E unit \in {<<"h", "r", "s">>, <<"h", "o", "u", "r", "s">>, <<"a", "m">>,
                    <<"p", "m">>} :
         /\ q + Len(unit) - 1 <= Len(text)
         /\ toLowerCase(SubSeq(text, q, q + Len(unit) - 1)) = unit

(***************************************************************************)
(* C31: each field with a pattern cascade (PNR, passenger name, flight     *)
(* number, hotel name, confirmation code, place) takes its value from the  *)
(* first pattern, in the fixed order, that gives an accepted match; a      *)
(* later pattern counts only when every earlier one failed or was          *)
(* rejected, and the value is the one of a single pattern.  A PNR after    *)
(* the label pnr or booking reference wins over every token of 6           *)
(* characters without label, also one that stands earlier in the text,     *)
(* and the token taken without label is never followed by hrs, hours, am   *)
(* or pm.                                                                  *)
(***************************************************************************)
C31_FirstPatternWins ==
  /\ Called("extract_flight_data") =>
       LET text == invoked.args[1] IN
       /\ FirstPatternWins(value.pnr, [k \in 1..2 |-> PnrOfPattern(text, k)])
       /\ FirstPatternWins(value.passenger_name,
                           [k \in 1..4 |-> NameOfPattern(text, k)])
       /\ FirstPatternWins(value.flight_number,
                           [k \in 1..2 |-> FlightNumberOfPattern(text, k)])
       /\ PnrOfPattern(text, 1) = Undefined /\ value.pnr # Undefined =>
            \E p \in 1..Len(text) :
              /\ TokenAt(text, p) /\ ~FollowedByTime(text, p)
              /\ value.pnr = toUpperCase(SubSeq(text, p, p + 5))
              /\ \A q \in 1..(p - 1) : ~(TokenAt(text, q) /\ ~FollowedByTime(text, q))
  /\ Called("extract_hotel_data") =>
       LET text == invoked.args[1] IN
       /\ FirstPatternWins(value.hotel_name,
                           [k \in 1..3 |-> HotelNameOfPattern(text, k)])
       /\ FirstPatternWins(value.confirmation_code,
                           [k \in 1..4 |-> CodeOfPattern(text, k)])
       /\ FirstPatternWins(value.place, [k \in 1..3 |-> PlaceOfPattern(text, k)])

\* C31: a PNR with its label is taken although a token of 6 characters
\* stands before it, and a token without label is taken although another
\* one, followed by hrs, stands before it
C31_Witness ==
  /\ Called("extract_flight_data")
  /\ \/ /\ PnrOfPattern(invoked.args[1], 1) # Undefined
        /\ PnrOfPattern(invoked.args[1], 2) # Undefined
        /\ PnrOfPattern(invoked.args[1], 2) # PnrOfPattern(invoked.args[1], 1)
        /\ value.pnr = PnrOfPattern(invoked.args[1], 1)
     \/ /\ PnrOfPattern(invoked.args[1], 1) = Undefined
        /\ value.pnr # Undefined
        /\ \E p \in 1..Len(invoked.args[1]) :
             TokenAt(invoked.args[1], p) /\ FollowedByTime(invoked.args[1], p)

\* the places at which a coded airport is written in the text: a code of
\* three letters followed by " - name" or by " to CODE"
AirportPlaces(text) ==
  { m[1] : m \in UNION {Range(MatchAll(text, airport_patterns[k])) : k \in 1..3} }

\* the code of the k-th coded airport of the text, read from its beginning
AirportInTextOrder(text, k) ==
  IF Cardinality(AirportPlaces(text)) < k THEN Undefined
  ELSE LET place == CHOOSE p \in AirportPlaces(text) :
                      Cardinality({q \in AirportPlaces(text) : q < p}) = k - 1
       IN toUpperCase(SubSeq(text, place, place + 2))

(***************************************************************************)
(* C32: in extract_flight_data departure_airport is the code of the first  *)
(* coded airport occurrence of the text and arrival_airport the code of    *)
(* the second one; with exactly one coded occurrence arrival_airport is    *)
(* absent, and with none the fallback on bare "... Airport" names fills    *)
(* only from and to and leaves both codes absent.                          *)
(***************************************************************************)
C32_AirportsByOccurrence ==
  Called("extract_flight_data") =>
    /\ value.departure_airport = AirportInTextOrder(invoked.args[1], 1)
    /\ value.arrival_airport = AirportInTextOrder(invoked.args[1], 2)

\* the first non-empty value among the members of the response
RECURSIVE FirstNonEmpty(_, _)
FirstNonEmpty(api_result, keys) ==
  IF keys = <<>> THEN Undefined
  ELSE IF Head(keys) \in DOMAIN api_result /\ api_result[Head(keys)] \notin {<<>>, Undefined}
  THEN api_result[Head(keys)]
  ELSE FirstNonEmpty(api_result, Tail(keys))

(***************************************************************************)
(* C33: the passport outcome gives each fixed field the first non-empty    *)
(* value among its aliases in the API response (full_name from full_name,  *)
(* name, passport_holder_name; passport_number from passport_number,       *)
(* passport_no; date_of_birth from date_of_birth, dob; expiry_date from    *)
(* expiry_date, expiration_date; nationality from nationality, country;    *)
(* gender from gender, sex), and the further members of the response are   *)
(* passed through without changing the value of a fixed field.             *)
(***************************************************************************)
C33_FirstNonEmptyAlias ==
  Called("process_passport_ocr") /\ value.status = "success" =>
    LET api_result == invoked.args[3].body IN
    /\ \A field \in DOMAIN Aliases \ {"place_of_birth"} :
         FirstNonEmpty(api_result, Aliases[field]) # Undefined
           => value.data[field] = FirstNonEmpty(api_result, Aliases[field])
    /\ \A key \in DOMAIN api_result \ DOMAIN Aliases : value.data[key] = api_result[key]

\* the documents the grouping has put into passport_docs, flight_docs and
\* hotel_docs
GroupedDocuments ==
  ({passport_docs[k].front : k \in 1..Len(passport_docs)}
     \cup {passport_docs[k].back : k \in 1..Len(passport_docs)}
     \cup Range(flight_docs) \cup Range(hotel_docs)) \ {NoDoc}

\* the calls of an extractor on the files of the unit that reports under
\* the document_id d
CallsOfDocument(d) ==
  {k \in 1..Len(ocr_calls) : DocumentIdOfUrl(ocr_calls[k].file_urls[1]) = d}

(***************************************************************************)
(* C34: processing a batch never modifies its inputs: the documents list   *)
(* and every document of it are, during and after process_documents_async, *)
(* as they were received; map_ticket_to_passenger leaves the traveller     *)
(* list it is given as it was; and no unit reads or writes what another    *)
(* unit produced: the outcome a unit publishes and posts is the one its    *)
(* own extractor call returned, and the matcher is given the travellers of *)
(* the documents received.                                                 *)
(***************************************************************************)
C34_InputsUnchanged ==
  /\ pc \notin {"idle", "rejected"} => documents = request.documents.items
  /\ pc \notin {"idle", "rejected", "scheduled"} =>
       GroupedDocuments \subseteq Range(request.documents.items)
  /\ \A k \in 1..Len(matcher_calls) :
       /\ matcher_calls[k].travellers =
            [n \in 1..Len(request.documents.items) |->
               [traveller_id |-> request.documents.items[n].traveller_id,
                traveller_name |-> request.documents.items[n].traveller_name]]
       /\ matcher_calls[k].left = matcher_calls[k].travellers
  /\ \A p \in 1..Len(posts) :
       \E k \in CallsOfDocument(UnitOfPost(p)) :
         posts[p].body.ocr_extracted_data = ocr_calls[k].returned
  /\ \A e \in 1..Len(events) :
       events[e].data.status = "mapped" =>
         \E k \in CallsOfDocument(events[e].data.document_id) :
           events[e].data.extracted_data = ocr_calls[k].returned.data

\* a batch has completed in which the matcher ran for two units, on the
\* same travellers, and two units posted different outcomes
C34_Witness ==
  /\ pc = "completed"
  /\ Len(matcher_calls) >= 2
  /\ matcher_calls[1].travellers = matcher_calls[2].travellers
  /\ \E p, q \in 1..Len(posts) :
       posts[p].body.ocr_extracted_data # posts[q].body.ocr_extracted_data

\* the 'mapped' events of the flight and hotel units
MappedTicketEvents ==
  {e \in 1..Len(events) : /\ events[e].data.status = "mapped"
                          /\ events[e].data.document_type \in {"flight", "hotel"}}

(***************************************************************************)
(* C35: for every flight or hotel unit that ends 'mapped', the             *)
(* traveller_id of its 'mapped' event and of its webhook post is the       *)
(* matcher's result when the matcher returns a traveller and the           *)
(* document's own traveller_id when it returns none; it is therefore a     *)
(* traveller_id that occurs in the batch, and the traveller_name of the    *)
(* event is a name the batch associates with that traveller_id.            *)
(***************************************************************************)
C35_MappedTravellerOfBatch ==
  /\ \A e \in MappedTicketEvents :
       LET mapped == events[e].data
       IN /\ \E k \in 1..Len(matcher_calls), d \in 1..Len(documents) :
               /\ matcher_calls[k].document_id = mapped.document_id
               /\ documents[d].document_id = mapped.document_id
               /\ mapped.traveller_id =
                    IF matcher_calls[k].returned # Null THEN matcher_calls[k].returned
                    ELSE documents[d].traveller_id
          /\ \E d \in 1..Len(documents) :
               /\ documents[d].traveller_id = mapped.traveller_id
               /\ documents[d].traveller_name = mapped.traveller_name
  /\ \A p \in TicketPosts :
       \E e \in MappedTicketEvents :
         /\ events[e].data.document_id = posts[p].body.document_id
         /\ events[e].data.traveller_id = posts[p].body.traveller_id
         /\ events[e].data.traveller_id = posts[p].body.mapped_to_traveller_id

\* the distinct (traveller_id, traveller_name) pairs of the list, each at its
\* first appearance
RECURSIVE DistinctTravellers(_, _)
DistinctTravellers(travellers, seen) ==
  IF travellers = <<>> THEN seen
  ELSE DistinctTravellers(Tail(travellers),
         IF Head(travellers) \in Range(seen) THEN seen
         ELSE Append(seen, Head(travellers)))

(***************************************************************************)
(* C36: the result of map_ticket_to_passenger on a traveller list with one *)
(* entry per document, in which a traveller appears once for each document *)
(* they own, is the same as its result on the list of the distinct         *)
(* (traveller_id, traveller_name) pairs in the order of their first        *)
(* appearance.                                                             *)
(***************************************************************************)
C36_DuplicatesDoNotMatter ==
  Called("map_ticket_to_passenger") =>
    value = map_ticket_to_passenger(invoked.args[1],
              DistinctTravellers(invoked.args[2], <<>>)).value

\* a traveller stands twice in the list, another one with a name of the
\* same score between the two, and the first one is returned
C36_Witness ==
  /\ Called("map_ticket_to_passenger")
  /\ Len(invoked.args[2]) = 3
  /\ invoked.args[2][1] = invoked.args[2][3]
  /\ invoked.args[2][2].traveller_id # invoked.args[2][1].traveller_id
  /\ ScoreEQ(fuzzy_match_name(invoked.args[1], invoked.args[2][1].traveller_name),
             fuzzy_match_name(invoked.args[1], invoked.args[2][2].traveller_name))
  /\ value = invoked.args[2][1].traveller_id

\* the passport documents of the batch that are not the last passport_front
\* or the last passport_back of their traveller
EarlierPassportDocs ==
  {k \in 1..Len(documents) :
     /\ documents[k].document_type \in {"passport_front", "passport_back"}
     /\ k # LastOf(DocsOfType(documents[k].traveller_id, documents[k].document_type))}

(***************************************************************************)
(* C37: grouping gives at most one passport unit per traveller_id,         *)
(* whatever the number of passport documents: when a traveller has several *)
(* passport_front or several passport_back documents, the one listed last  *)
(* in the batch is processed and its document_id reported, and the earlier *)
(* ones give no event and no webhook.                                      *)
(***************************************************************************)
C37_LastPassportSideWins ==
  /\ \A e, f \in 1..Len(events) :
       /\ events[e].data.document_type = "passport"
       /\ events[f].data.document_type = "passport"
       /\ events[e].data.traveller_id = events[f].data.traveller_id
       => events[e].data.document_id = events[f].data.document_id
  /\ \A e \in 1..Len(events) :
       events[e].data.document_type = "passport" =>
         events[e].data.document_id =
           documents[LastOf(DocsOfType(events[e].data.traveller_id,
                                       "passport_front"))].document_id
  /\ \A p, q \in 1..Len(posts) :
       /\ posts[p].body.ticket_type = "passport"
       /\ posts[q].body.ticket_type = "passport"
       /\ posts[p].body.traveller_id = posts[q].body.traveller_id
       => p = q
  /\ \A p \in 1..Len(posts) :
       posts[p].body.ticket_type = "passport" =>
         /\ posts[p].body.passport_front_doc_id =
              documents[LastOf(DocsOfType(posts[p].body.traveller_id,
                                          "passport_front"))].document_id
         /\ posts[p].body.passport_back_doc_id =
              documents[LastOf(DocsOfType(posts[p].body.traveller_id,
                                          "passport_back"))].document_id
  /\ \A k \in EarlierPassportDocs :
       /\ EventsOf(documents[k].document_id) = {}
       /\ PostsOf(documents[k].document_id) = {}
       /\ \A c \in 1..Len(ocr_calls) :
            documents[k].file_url \notin Range(ocr_calls[c].file_urls)

\* a batch with two passport fronts and two passport backs of one traveller
\* has completed with one passport unit, reported and posted under the last
\* front
C37_Witness ==
  /\ pc = "completed"
  /\ Cardinality(EarlierPassportDocs) = 2
  /\ \E p \in 1..Len(posts) : posts[p].body.ticket_type = "passport"
  /\ \E e \in 1..Len(events) :
       /\ events[e].data.document_type = "passport"
       /\ events[e].data.status = "mapped"
       /\ events[e].data.document_id = "d3"

\* the documents whose document_type is none of the four the grouping knows
IgnoredDocs ==
  {k \in 1..Len(documents) :
     documents[k].document_type \notin {"passport_front", "passport_back", "flight",
                                        "hotel"}}

\* the batch without them
KnownDocuments ==
  SelectSeq(documents,
            LAMBDA doc : doc.document_type \in {"passport_front", "passport_back",
                                                "flight", "hotel"})

(***************************************************************************)
(* C38: a document whose document_type is none of passport_front,          *)
(* passport_back, flight, hotel is silently ignored: it gives no progress  *)
(* event, no extractor call and no webhook post, and the units are those   *)
(* of the batch without it; but its (traveller_id, traveller_name) is in   *)
(* the traveller list of every name matching.                              *)
(***************************************************************************)
C38_UnknownTypeIgnored ==
  /\ \A k \in IgnoredDocs :
       /\ EventsOf(documents[k].document_id) = {}
       /\ PostsOf(documents[k].document_id) = {}
       /\ \A p \in 1..Len(posts) :
            posts[p].body.passport_back_doc_id # documents[k].document_id
       /\ \A c \in 1..Len(ocr_calls) :
            documents[k].file_url \notin Range(ocr_calls[c].file_urls)
       /\ \A m \in 1..Len(matcher_calls) :
            [traveller_id |-> documents[k].traveller_id,
             traveller_name |-> documents[k].traveller_name]
              \in Range(matcher_calls[m].travellers)
  /\ pc \notin {"idle", "rejected", "scheduled"} =>
       /\ passport_docs = GroupPassports(KnownDocuments, 1, <<>>)
       /\ flight_docs = SelectSeq(KnownDocuments, IsFlight)
       /\ hotel_docs = SelectSeq(KnownDocuments, IsHotel)

\* a batch of a visa document and a flight ticket has completed: the only
\* events are those of the ticket, and the matcher returned the traveller
\* of the visa document
C38_Witness ==
  /\ pc = "completed"
  /\ IgnoredDocs # {}
  /\ events # <<>>
  /\ \E m \in 1..Len(matcher_calls), k \in IgnoredDocs :
       /\ matcher_calls[m].returned = documents[k].traveller_id
       /\ \A d \in 1..Len(documents) :
            documents[d].traveller_id = documents[k].traveller_id => d = k

\* the k-th occurrence collected, absent when fewer were collected
Nth(found, k) == IF Len(found) >= k THEN found[k] ELSE Undefined

\* the second-position field is present only if the first-position one is
OnlyAfter(second, first) == second # Undefined => first # Undefined

(***************************************************************************)
(* C39: in every extraction result a second-position field is present only *)
(* if its first-position field is present (flight: arrival_date after      *)
(* departure_date, arrival_time after departure_time, arrival_airport      *)
(* after departure_airport, to after from; hotel: check_out_date after     *)
(* check_in_date), and the first-position value is the first occurrence    *)
(* collected and the second-position value the second one: of the dates,   *)
(* of the times, of the coded airports, and for from and to of the coded   *)
(* airports or, when the text has no coded airport, of the bare airport    *)
(* names.                                                                  *)
(***************************************************************************)
C39_SecondOnlyAfterFirst ==
  /\ Called("extract_flight_data") =>
       LET text == invoked.args[1]
           dates == Collect(text, date_patterns, 1)
           times == Collect(text, time_patterns, 1)
           coded == AirportMatches(text, 1)
           names == AirportNames(text, Collect(text, airport_name_patterns, 1), <<>>)
           name_of(airport) == IF airport.name # <<>> THEN airport.name ELSE airport.code
       IN /\ OnlyAfter(value.arrival_date, value.departure_date)
          /\ OnlyAfter(value.arrival_time, value.departure_time)
          /\ OnlyAfter(value.arrival_airport, value.departure_airport)
          /\ OnlyAfter(value.to, value.from)
          /\ value.departure_date = Nth(dates, 1)
          /\ value.arrival_date = Nth(dates, 2)
          /\ value.departure_time = (IF times = <<>> THEN Undefined ELSE trim(times[1]))
          /\ value.arrival_time = (IF Len(times) < 2 THEN Undefined ELSE trim(times[2]))
          /\ value.departure_airport =
               (IF coded = <<>> THEN Undefined ELSE coded[1].code)
          /\ value.arrival_airport =
               (IF Len(coded) < 2 THEN Undefined ELSE coded[2].code)
          /\ value.from = (IF coded # <<>> THEN name_of(coded[1]) ELSE Nth(names, 1))
          /\ value.to = (IF Len(coded) >= 2 THEN name_of(coded[2])
                         ELSE IF coded # <<>> THEN Undefined
                         ELSE Nth(names, 2))
  /\ Called("extract_hotel_data") =>
       LET found == MatchAll(invoked.args[1], DayAndMonth)
           dates_array == [j \in 1..Len(found) |-> DateOf(invoked.args[1], found[j])]
       IN /\ OnlyAfter(value.check_out_date, value.check_in_date)
          /\ value.check_in_date = Nth(dates_array, 1)
          /\ value.check_out_date = Nth(dates_array, 2)

====
